---- MODULE Spec2Model ----
(***************************************************************************)
(* A model of network_lib's socket core: the handle registry (objectmap   *)
(* ids with reference counts), the descriptor slot table, the socket      *)
(* record with its in-ring and out-buffer, the TCP operations, the state  *)
(* poller and the stream adapter (socket.c, tcp.c).                       *)
(*                                                                         *)
(* Every C function is an operator from a world record (the heap, the     *)
(* slot table, the kernel) to a world record; what the kernel or          *)
(* undefined behaviour decides is an explicit oracle parameter, and the   *)
(* actions draw the oracles with \E.                                       *)
(***************************************************************************)
EXTENDS Integers, Sequences, FiniteSets, TLC

VARIABLES
    socks,      \* id -> socket_t (the heap objects _socket_allocate makes)
    slots,      \* _socket_base[]: base -> socket_base_t
    base_next,  \* _socket_base_next, the slot claim cursor
    objmap,     \* _socket_map: the ids currently mapped, and the next fresh id
    fds,        \* the kernel's descriptors
    streams,    \* socket_stream_t objects, keyed by the id they were made for
    events,     \* network events posted, in order
    halted,     \* the process left defined behaviour or never returned from a call
    last,       \* the call made by the last step: operation, arguments, results
    hist,       \* observations the properties need: per id, what was called on it
    threads     \* per thread, where it is in the call it is making (SpecThreads)

vars == <<socks, slots, base_next, objmap, fds, streams, events, halted, last, hist,
          threads>>

----------------------------------------------------------------------------
\* Bounds of the model.

MaxSockets == 4
MaxIds == 3
MaxFd == 3
MaxPort == 2
MaxData == 3
MaxWrite == 3
MaxSend == 5
MaxBacklog == 1
KBuf == 3
MaxRef == 3
MaxCreate == 2
MaxEvents == 1
MaxRead == 2

\* Program constants, scaled.
CursorWrap == 2
BUILD_SIZE_SOCKET_READBUFFER == 3
BUILD_SIZE_SOCKET_WRITEBUFFER == 2
SOCKET_INVALID == -1

Ids == 1..MaxIds
Bases == 0..(MaxSockets - 1)
Fds == 1..MaxFd
Families == {4, 6}

Min(a, b) == IF a < b THEN a ELSE b

\* Body applied to v: a value is named once and used many times.
With(v, Body(_)) == Body(v)

\* network_address_t values: a family and a port (port 0 asks the kernel to
\* choose). NoAddr is the null pointer.
NoAddr == [fam |-> 0, port |-> 0]
Addr(f, p) == [fam |-> f, port |-> p]
Addresses == {Addr(f, p) : f \in Families, p \in 0..MaxPort}
\* The port the kernel gives a socket that connects without having been bound.
EphemeralPort == MaxPort + 1

\* A byte is <<id of the writing socket, position in what it wrote>>; Zero is the
\* byte of zero-initialised memory.
Zero == <<0, 0>>

----------------------------------------------------------------------------
\* The kernel.

KFd0 ==
    [open |-> FALSE, fam |-> 0, nonblock |-> FALSE, bound |-> NoAddr,
     listening |-> FALSE, backlog |-> <<>>, dst |-> NoAddr, peer |-> 0,
     conn |-> "none", rx |-> <<>>, net |-> <<>>, pend |-> <<>>,
     fin |-> FALSE, reset |-> FALSE]

FdOpen(w, fd) == fd \in Fds /\ w.fds[fd].open

FreeFds(w) == {f \in Fds : ~w.fds[f].open}

LowestFree(w) == CHOOSE f \in FreeFds(w) : \A g \in FreeFds(w) : f <= g

SeqWithout(s, x) == SelectSeq(s, LAMBDA y : y # x)

\* socket(): the lowest free descriptor, a blocking socket; -1 when the table
\* of descriptors is full.
KSocket(w, fam) ==
    IF FreeFds(w) = {} THEN [w |-> w, fd |-> -1]
    ELSE LET f == LowestFree(w) IN
         [w |-> [w EXCEPT !.fds[f] = [KFd0 EXCEPT !.open = TRUE, !.fam = fam]],
          fd |-> f]

\* shutdown() and close(): the peer sees a reset when received data was left
\* unread, the end of the stream otherwise; the connections waiting in a
\* listener's queue are reset.
KClose(w, fd) ==
    IF ~FdOpen(w, fd) THEN w
    ELSE LET k == w.fds[fd]
             unread == k.rx # <<>> \/ k.net # <<>>
             queued == {k.backlog[i] : i \in 1..Len(k.backlog)}
         IN [w EXCEPT !.fds =
               [g \in Fds |->
                  IF g = fd THEN KFd0
                  ELSE IF w.fds[g].open /\ w.fds[g].peer = fd
                       THEN [w.fds[g] EXCEPT !.peer = 0,
                                             !.fin = ~unread,
                                             !.reset = unread]
                  ELSE IF g \in queued
                       THEN [w.fds[g] EXCEPT !.reset = TRUE, !.pend = <<>>]
                  ELSE IF w.fds[g].open /\ w.fds[g].listening
                       THEN [w.fds[g] EXCEPT !.backlog = SeqWithout(@, fd)]
                  ELSE w.fds[g]]]

\* fcntl(O_NONBLOCK) / ioctlsocket(FIONBIO).
_socket_set_blocking_fd(w, fd, block) ==
    IF FdOpen(w, fd) THEN [w EXCEPT !.fds[fd].nonblock = ~block] ELSE w

_socket_close_fd(w, fd) == KClose(w, fd)

PortsInUse(w, fam) ==
    {w.fds[g].bound.port : g \in {h \in Fds : w.fds[h].open /\ w.fds[h].fam = fam}}

\* The address bind() gives the descriptor, NoAddr when bind() fails: the
\* descriptor is bound already, the family differs, or the port is taken.
KBindAddr(w, fd, addr) ==
    LET used == PortsInUse(w, addr.fam)
        free == {p \in 1..MaxPort : p \notin used}
    IN IF ~FdOpen(w, fd) \/ w.fds[fd].bound # NoAddr \/ w.fds[fd].fam # addr.fam
       THEN NoAddr
       ELSE IF addr.port = 0
            THEN IF free = {} THEN NoAddr
                 ELSE Addr(addr.fam, CHOOSE p \in free : \A q \in free : p <= q)
            ELSE IF addr.port \in used THEN NoAddr ELSE addr

\* getsockname().
KSockName(w, fd) == IF FdOpen(w, fd) THEN w.fds[fd].bound ELSE NoAddr

\* ioctl(FIONREAD): [ok, n].
KFionread(w, fd) ==
    IF ~FdOpen(w, fd) \/ w.fds[fd].reset THEN [ok |-> FALSE, n |-> 0]
    ELSE [ok |-> TRUE, n |-> Len(w.fds[fd].rx)]

\* The listening descriptor bound to addr, 0 when there is none.
ListenerAt(w, addr) ==
    LET ls == {g \in Fds : w.fds[g].open /\ w.fds[g].listening /\ w.fds[g].bound = addr}
    IN IF ls = {} \/ addr.port = 0 THEN 0 ELSE CHOOSE g \in ls : TRUE

----------------------------------------------------------------------------
\* The heap objects and the slot table.

RB == BUILD_SIZE_SOCKET_READBUFFER
WB == BUILD_SIZE_SOCKET_WRITEBUFFER

\* mem: "none" before _socket_allocate made the object, "live", "freed" after
\* memory_deallocate.
Sock0 ==
    [mem |-> "none", ref |-> 0, base |-> -1, family |-> 0,
     address_local |-> NoAddr, address_remote |-> NoAddr,
     buffer_in |-> [i \in 0..(RB - 1) |-> Zero],
     offset_read_in |-> 0, offset_write_in |-> 0,
     buffer_out |-> [i \in 0..(WB - 1) |-> Zero],
     offset_write_out |-> 0, bytes_read |-> 0, bytes_written |-> 0,
     stream |-> 0]

\* A slot as _socket_allocate_base and _socket_close leave it.
Slot0 ==
    [object |-> 0, fd |-> SOCKET_INVALID, flags |-> {}, state |-> "NOTCONNECTED",
     last_event |-> 0]

\* A slot of the zero-initialised table: its fd is 0, not SOCKET_INVALID.
SlotZero == [Slot0 EXCEPT !.fd = 0]

Stream0 == [live |-> FALSE, socket |-> 0]

\* _socket_initialize: an empty object map, a zeroed slot table, the cursor at 0.
World0 ==
    [socks |-> [i \in Ids |-> Sock0],
     slots |-> [b \in Bases |-> SlotZero],
     next |-> 0,
     map |-> {},
     nid |-> 1,
     fds |-> [f \in Fds |-> KFd0],
     streams |-> [i \in Ids |-> Stream0],
     events |-> <<>>,
     halted |-> FALSE,
     blocked |-> FALSE]

\* The object map holds max_sockets + 8 entries (scaled: + 1).
MapCap == MaxSockets + 1

objectmap_lookup(w, id) == id \in w.map

\* _socket_allocate: objectmap_reserve gives an id never used before, 0 when the
\* map is full; the record starts with ref 1 and no slot.
_socket_allocate(w) ==
    IF Cardinality(w.map) >= MapCap THEN [w |-> w, id |-> 0]
    ELSE [w |-> [w EXCEPT !.socks[w.nid] = [Sock0 EXCEPT !.mem = "live", !.ref = 1],
                          !.map = @ \cup {w.nid},
                          !.nid = @ + 1],
          id |-> w.nid]

MinOf(S) == CHOOSE x \in S : \A y \in S : x <= y

FreeFrom(w, c) == {b \in Bases : b >= c /\ w.slots[b].object = 0}

ClaimSlot(w, id, b) ==
    [w EXCEPT !.socks[id].base = b,
              !.slots[b] = [Slot0 EXCEPT !.object = id],
              !.next = b + 1]

\* _socket_allocate_base. The cursor only grows: it is never reduced modulo the
\* table size. A slot at or after the cursor that is free is claimed. When there
\* is none, the loop counts the cursor up to the wrap of the 32-bit counter and
\* then indexes the table with a negative base: undefined behaviour, whose
\* outcome ub chooses:
\*   "crash"  the access faults (or the loop never finds a slot): no return;
\*   "claim"  the memory read is zero and the CAS succeeds: sock->base is the
\*            negative index, which is also what the function returns;
\*   "skip"   the memory read is non-zero at every negative index: the cursor
\*            reaches 0 again and the table is scanned from its start.
UBS == {"crash", "claim", "skip"}

_socket_allocate_base(w, id, ub) ==
    IF w.socks[id].base >= 0 THEN w
    ELSE IF w.next >= 0 /\ FreeFrom(w, w.next) # {}
         THEN ClaimSlot(w, id, MinOf(FreeFrom(w, w.next)))
    ELSE LET first == IF w.next < 0 THEN w.next ELSE -CursorWrap IN
         CASE ub = "crash" -> [w EXCEPT !.halted = TRUE, !.next = first + 1]
           [] ub = "claim" -> [w EXCEPT !.socks[id].base = first, !.next = first + 1]
           [] OTHER -> IF FreeFrom(w, 0) # {}
                       THEN ClaimSlot(w, id, MinOf(FreeFrom(w, 0)))
                       ELSE [w EXCEPT !.halted = TRUE, !.next = 0]

\* A variant of _socket_close that closes the descriptor and forgets it and the
\* addresses, and leaves the slot claimed and in its state.
_socket_close_keeps_state(w, id) ==
    LET b == w.socks[id].base
        fd == IF b >= 0 THEN w.slots[b].fd ELSE SOCKET_INVALID
    IN With([(IF b >= 0 THEN [w EXCEPT !.slots[b].fd = SOCKET_INVALID] ELSE w)
             EXCEPT !.socks[id].address_local = NoAddr,
                    !.socks[id].address_remote = NoAddr], LAMBDA w2 :
       IF fd # SOCKET_INVALID
       THEN _socket_close_fd(_socket_set_blocking_fd(w2, fd, FALSE), fd)
       ELSE w2)

\* _socket_close: release the slot, forget the addresses, close the descriptor.
\* The buffers and their offsets are left as they are.
_socket_close(w, id) ==
    LET b == w.socks[id].base
        fd == IF b >= 0 THEN w.slots[b].fd ELSE SOCKET_INVALID
    IN With([(IF b >= 0
              THEN [w EXCEPT !.socks[id].base = -1,
                             !.slots[b] = [@ EXCEPT !.object = 0,
                                                    !.fd = SOCKET_INVALID,
                                                    !.state = "NOTCONNECTED",
                                                    !.flags = {}]]
              ELSE w)
             EXCEPT !.socks[id].address_local = NoAddr,
                    !.socks[id].address_remote = NoAddr], LAMBDA w2 :
       IF fd # SOCKET_INVALID
       THEN _socket_close_fd(_socket_set_blocking_fd(w2, fd, FALSE), fd)
       ELSE w2)

\* _socket_lookup: objectmap_lookup, then ref++.
_socket_lookup(w, id) ==
    IF objectmap_lookup(w, id) THEN [w EXCEPT !.socks[id].ref = @ + 1] ELSE w

RECURSIVE socket_destroy(_, _)

\* _socket_stream_finalize: clear the record's back-pointer under a lookup of
\* its own, then give up the reference the stream kept since socket_stream.
_socket_stream_finalize(w, s) ==
    LET id == w.streams[s].socket
    IN With(IF id # 0 /\ objectmap_lookup(w, id)
            THEN socket_destroy([_socket_lookup(w, id) EXCEPT !.socks[id].stream = 0], id)
            ELSE w, LAMBDA w1 :
       With([w1 EXCEPT !.streams[s].socket = 0], LAMBDA w2 :
       IF id # 0 THEN socket_destroy(w2, id) ELSE w2))

\* stream_deallocate: the finalizer, then the stream's memory is freed.
stream_deallocate(w, s) ==
    IF s = 0 \/ ~w.streams[s].live THEN w
    ELSE [_socket_stream_finalize(w, s) EXCEPT !.streams[s] = Stream0]

\* _socket_deallocate: unmap the id, close, free the stream and the record.
_socket_deallocate(w, id) ==
    With(_socket_close([w EXCEPT !.map = @ \ {id}], id), LAMBDA w2 :
    With(stream_deallocate(w2, w2.socks[id].stream), LAMBDA w3 :
    [w3 EXCEPT !.socks[id] = [Sock0 EXCEPT !.mem = "freed"]]))

\* socket_destroy (socket_free): objectmap_lookup, ref--, deallocate on 0.
socket_destroy(w, id) ==
    IF ~objectmap_lookup(w, id) THEN w
    ELSE With([w EXCEPT !.socks[id].ref = @ - 1], LAMBDA w1 :
         IF w1.socks[id].ref = 0 THEN _socket_deallocate(w1, id) ELSE w1)

----------------------------------------------------------------------------
\* Flags, descriptors, addresses.

SetFlag(flags, f, on) == IF on THEN flags \cup {f} ELSE flags \ {f}

\* _socket_set_blocking: claim a slot if there is none, record the flag, apply it
\* to the descriptor if there is one.
_socket_set_blocking(w, id, block, ub) ==
    With(_socket_allocate_base(w, id, ub), LAMBDA w1 :
    LET b == w1.socks[id].base
    IN IF w1.halted \/ b < 0 THEN w1
       ELSE With([w1 EXCEPT !.slots[b].flags = SetFlag(@, "BLOCKING", block)], LAMBDA w2 :
            IF w2.slots[b].fd # SOCKET_INVALID
            THEN _socket_set_blocking_fd(w2, w2.slots[b].fd, block)
            ELSE w2))

_socket_set_reuse_address(w, id, reuse, ub) ==
    With(_socket_allocate_base(w, id, ub), LAMBDA w1 :
    LET b == w1.socks[id].base
    IN IF w1.halted \/ b < 0 THEN w1
       ELSE [w1 EXCEPT !.slots[b].flags = SetFlag(@, "REUSE_ADDR", reuse)])

_socket_set_reuse_port(w, id, reuse, ub) ==
    With(_socket_allocate_base(w, id, ub), LAMBDA w1 :
    LET b == w1.socks[id].base
    IN IF w1.halted \/ b < 0 THEN w1
       ELSE [w1 EXCEPT !.slots[b].flags = SetFlag(@, "REUSE_PORT", reuse)])

\* _tcp_socket_set_delay: nothing without a slot.
_tcp_socket_set_delay(w, id, delay) ==
    LET b == w.socks[id].base
    IN IF b < 0 THEN w
       ELSE [w EXCEPT !.slots[b].flags = SetFlag(@, "TCPDELAY", delay)]

\* _tcp_socket_open: socket(), then the slot's blocking and delay flags are
\* applied to the new descriptor.
_tcp_socket_open(w, id, family, ub) ==
    LET b == w.socks[id].base
    IN IF b < 0 THEN w
       ELSE With(KSocket(w, family), LAMBDA k :
            IF k.fd < 0 THEN [k.w EXCEPT !.slots[b].fd = SOCKET_INVALID]
            ELSE With([k.w EXCEPT !.slots[b].fd = k.fd], LAMBDA w1 :
                 _tcp_socket_set_delay(
                     _socket_set_blocking(w1, id, "BLOCKING" \in w1.slots[b].flags, ub),
                     id, "TCPDELAY" \in w1.slots[b].flags)))

\* _socket_create_fd: [w, fd].
_socket_create_fd(w, id, family, ub) ==
    With(_socket_allocate_base(w, id, ub), LAMBDA w1 :
    LET b == w1.socks[id].base
    IN IF w1.halted \/ b < 0 THEN [w |-> w1, fd |-> SOCKET_INVALID]
       ELSE IF w1.slots[b].fd # SOCKET_INVALID
            THEN [w |-> w1,
                  fd |-> IF w1.socks[id].family # family THEN SOCKET_INVALID
                         ELSE w1.slots[b].fd]
       ELSE With(_tcp_socket_open(w1, id, family, ub), LAMBDA w2 :
            LET fl == w2.slots[b].flags
            IN IF w2.slots[b].fd = SOCKET_INVALID THEN [w |-> w2, fd |-> SOCKET_INVALID]
               ELSE With(_socket_set_reuse_port(
                             _socket_set_reuse_address(
                                 _socket_set_blocking(
                                     [w2 EXCEPT !.socks[id].family = family],
                                     id, "BLOCKING" \in fl, ub),
                                 id, "REUSE_ADDR" \in fl, ub),
                             id, "REUSE_PORT" \in fl, ub), LAMBDA w4 :
                    [w |-> w4, fd |-> w4.slots[b].fd])))

\* _socket_store_address_local: a new address of the family, filled in by
\* getsockname().
_socket_store_address_local(w, id, family) ==
    LET b == w.socks[id].base
    IN IF b < 0 \/ family \notin Families THEN w
       ELSE [w EXCEPT !.socks[id].address_local =
                         Addr(family, KSockName(w, w.slots[b].fd).port)]

\* _socket_available_fd: -1 when the descriptor is invalid or the ioctl fails
\* with nothing counted.
_socket_available_fd(w, fd) ==
    LET k == KFionread(w, fd)
    IN IF fd = SOCKET_INVALID THEN -1
       ELSE IF k.n = 0 /\ ~k.ok THEN -1 ELSE k.n

_socket_buffered_in(s) ==
    IF s.offset_write_in >= s.offset_read_in
    THEN s.offset_write_in - s.offset_read_in
    ELSE (RB - s.offset_read_in) + s.offset_write_in

_socket_available_nonblock_read(w, id) ==
    LET s == w.socks[id]
        available == IF s.base >= 0 THEN _socket_available_fd(w, w.slots[s.base].fd) ELSE 0
    IN _socket_buffered_in(s) + (IF available > 0 THEN available ELSE 0)

----------------------------------------------------------------------------
\* The state poller.

\* select() on a connecting descriptor: a failed connect is reported as an
\* exception (exc) or as writable, as the platform has it.
KWritable(w, fd, exc) ==
    FdOpen(w, fd) /\ (w.fds[fd].conn = "established" \/ (w.fds[fd].conn = "failed" /\ ~exc))

KException(w, fd, exc) == FdOpen(w, fd) /\ w.fds[fd].conn = "failed" /\ exc

\* A variant of _socket_poll_state that answers an exception in CONNECTING with
\* the state DISCONNECTED and leaves the socket open.
_socket_poll_state_exception_disconnects(w, b, exc) ==
    LET sb == w.slots[b]
        id == sb.object
        found == id # 0 /\ objectmap_lookup(w, id)
    IN CASE sb.state \in {"NOTCONNECTED", "DISCONNECTED", "LISTENING"} -> w
         [] sb.state = "CONNECTING" ->
              IF KException(w, sb.fd, exc)
              THEN [w EXCEPT !.slots[b].state = "DISCONNECTED"]
              ELSE IF KWritable(w, sb.fd, exc)
                   THEN [w EXCEPT !.slots[b].state = "CONNECTED"]
                   ELSE w
         [] OTHER ->
              IF _socket_available_fd(w, sb.fd) >= 0 THEN w
              ELSE IF ~found THEN [w EXCEPT !.slots[b].state = "DISCONNECTED", !.halted = TRUE]
              ELSE With([_socket_lookup(w, id) EXCEPT !.slots[b].state = "DISCONNECTED"],
                        LAMBDA w1 :
                   IF _socket_buffered_in(w1.socks[id]) = 0
                   THEN socket_destroy(_socket_close(w1, id), id)
                   ELSE socket_destroy(w1, id))

\* _socket_poll_state on slot b; the state it returns is the slot's state in
\* the world it returns. A lookup that finds no record leaves a null pointer,
\* which _socket_buffered_in dereferences.
_socket_poll_state(w, b, exc) ==
    LET sb == w.slots[b]
        id == sb.object
        found == id # 0 /\ objectmap_lookup(w, id)
    IN CASE sb.state \in {"NOTCONNECTED", "DISCONNECTED", "LISTENING"} -> w
         [] sb.state = "CONNECTING" ->
              IF KException(w, sb.fd, exc)
              THEN IF found
                   THEN socket_destroy(_socket_close(_socket_lookup(w, id), id), id)
                   ELSE w
              ELSE IF KWritable(w, sb.fd, exc)
                   THEN [w EXCEPT !.slots[b].state = "CONNECTED"]
                   ELSE w
         [] OTHER ->
              IF _socket_available_fd(w, sb.fd) >= 0 THEN w
              ELSE IF ~found THEN [w EXCEPT !.slots[b].state = "DISCONNECTED", !.halted = TRUE]
              ELSE With([_socket_lookup(w, id) EXCEPT !.slots[b].state = "DISCONNECTED"],
                        LAMBDA w1 :
                   IF _socket_buffered_in(w1.socks[id]) = 0
                   THEN socket_destroy(_socket_close(w1, id), id)
                   ELSE socket_destroy(w1, id))

----------------------------------------------------------------------------
\* The kernel: connections.

Room(w, l) == l # 0 /\ Len(w.fds[l].backlog) < MaxBacklog

AutoBound(k) == IF k.bound = NoAddr THEN Addr(k.fam, EphemeralPort) ELSE k.bound

\* The handshake of fd with the listener l completes: fd is connected and
\* waits in l's queue for accept().
KEstablish(w, fd, l) ==
    [w EXCEPT !.fds[fd].conn = "established",
              !.fds[fd].bound = AutoBound(w.fds[fd]),
              !.fds[fd].dst = NoAddr,
              !.fds[l].backlog = Append(@, fd)]

\* The kernel finishes a connect that was in progress.
KConnectDone(w, fd) ==
    LET l == ListenerAt(w, w.fds[fd].dst)
    IN IF Room(w, l) THEN KEstablish(w, fd, l)
       ELSE [w EXCEPT !.fds[fd].conn = "failed", !.fds[fd].dst = NoAddr]

\* connect(): [w, res], res "ok", "inprogress" or "error". A blocking
\* descriptor waits for the outcome; a non-blocking one gets it at once (imm)
\* or is left in progress.
KConnect(w, fd, addr, imm) ==
    LET k == w.fds[fd]
        l == ListenerAt(w, addr)
    IN IF ~FdOpen(w, fd) \/ k.listening \/ k.conn \in {"progress", "established"}
          \/ k.fam # addr.fam
       THEN [w |-> w, res |-> "error"]
       ELSE IF k.nonblock /\ ~imm
            THEN [w |-> [w EXCEPT !.fds[fd].conn = "progress",
                                  !.fds[fd].dst = addr,
                                  !.fds[fd].bound = AutoBound(k)],
                  res |-> "inprogress"]
       ELSE IF Room(w, l) THEN [w |-> KEstablish(w, fd, l), res |-> "ok"]
       ELSE [w |-> w, res |-> "error"]

\* listen(): TRUE when it succeeds.
KListenOk(w, fd) == FdOpen(w, fd) /\ w.fds[fd].conn = "none"

\* accept() on l with a connection queued: [w, fd]; fd is -1 when no descriptor
\* is free. The new descriptor is blocking, or inherits the listener's mode
\* (inh), as the platform has it. What the peer sent already is on its way.
KAccept(w, l, inh) ==
    LET c == Head(w.fds[l].backlog)
        f == LowestFree(w)
    IN IF FreeFds(w) = {} THEN [w |-> w, fd |-> -1]
       ELSE [w |-> [w EXCEPT !.fds[l].backlog = Tail(@),
                             !.fds[c].peer = f,
                             !.fds[c].pend = <<>>,
                             !.fds[f] = [KFd0 EXCEPT !.open = TRUE,
                                                    !.fam = w.fds[l].fam,
                                                    !.nonblock = inh /\ w.fds[l].nonblock,
                                                    !.bound = w.fds[l].bound,
                                                    !.conn = "established",
                                                    !.peer = c,
                                                    !.net = w.fds[c].pend]],
             fd |-> f]

\* The descriptors whose connect to the listener l is in progress.
Connecting(w, l) ==
    {c \in Fds : w.fds[c].open /\ w.fds[c].conn = "progress"
                 /\ w.fds[c].dst = w.fds[l].bound}

----------------------------------------------------------------------------
\* Bind, connect, listen, accept.

\* A variant of socket_bind that stores the address it was passed instead of
\* asking the descriptor for the address it was bound to.
socket_bind_stores_argument(w, id, addr, ub) ==
    IF ~objectmap_lookup(w, id) THEN [w |-> w, res |-> FALSE]
    ELSE With(_socket_create_fd(_socket_lookup(w, id), id, addr.fam, ub), LAMBDA c :
         LET got == KBindAddr(c.w, c.fd, addr)
         IN IF c.w.halted THEN [w |-> c.w, res |-> FALSE]
            ELSE IF c.fd = SOCKET_INVALID \/ got = NoAddr
                 THEN [w |-> socket_destroy(c.w, id), res |-> FALSE]
            ELSE [w |-> socket_destroy(
                            [c.w EXCEPT !.fds[c.fd].bound = got,
                                        !.socks[id].address_local = addr],
                            id),
                  res |-> TRUE])

\* socket_bind: [w, res].
socket_bind(w, id, addr, ub) ==
    IF ~objectmap_lookup(w, id) THEN [w |-> w, res |-> FALSE]
    ELSE With(_socket_create_fd(_socket_lookup(w, id), id, addr.fam, ub), LAMBDA c :
         LET got == KBindAddr(c.w, c.fd, addr)
         IN IF c.w.halted THEN [w |-> c.w, res |-> FALSE]
            ELSE IF c.fd = SOCKET_INVALID \/ got = NoAddr
                 THEN [w |-> socket_destroy(c.w, id), res |-> FALSE]
            ELSE [w |-> socket_destroy(
                            _socket_store_address_local(
                                [c.w EXCEPT !.fds[c.fd].bound = got], id, addr.fam),
                            id),
                  res |-> TRUE])

\* A variant of ConnectOutcome that takes a connection in progress for an
\* established one.
ConnectOutcome_in_progress_connected(k, b, fd, timeout, within) ==
    CASE k.res \in {"ok", "inprogress"} ->
             [w |-> [k.w EXCEPT !.slots[b].state = "CONNECTED"], failed |-> FALSE]
      [] OTHER -> [w |-> k.w, failed |-> TRUE]

\* What _tcp_socket_connect does once connect() returned k = [w, res] on fd.
\* A connect left in progress is waited for when there is a timeout: the
\* handshake ends within it (within) or not. [w, failed].
ConnectOutcome(k, b, fd, timeout, within) ==
    CASE k.res = "ok" ->
             [w |-> [k.w EXCEPT !.slots[b].state = "CONNECTED"], failed |-> FALSE]
      [] k.res = "inprogress" /\ timeout = 0 ->
             [w |-> [k.w EXCEPT !.slots[b].state = "CONNECTING"], failed |-> FALSE]
      [] k.res = "inprogress" /\ within ->
             With(KConnectDone(k.w, fd), LAMBDA waited :
                 IF waited.fds[fd].conn = "established"
                 THEN [w |-> [waited EXCEPT !.slots[b].state = "CONNECTED"],
                       failed |-> FALSE]
                 ELSE [w |-> [waited EXCEPT !.fds[fd].conn = "none"], failed |-> TRUE])
      [] OTHER -> [w |-> k.w, failed |-> TRUE]

\* _tcp_socket_connect: [w, err]; err 0 is success. With a timeout a blocking
\* socket is non-blocking for the duration of the call.
_tcp_socket_connect(w, id, addr, timeout, imm, within, ub) ==
    LET b == w.socks[id].base
        tmp == timeout > 0 /\ "BLOCKING" \in w.slots[b].flags
    IN IF b < 0 THEN [w |-> w, err |-> 0]
       ELSE With(IF tmp THEN _socket_set_blocking(w, id, FALSE, ub) ELSE w, LAMBDA w1 :
            With(ConnectOutcome(KConnect(w1, w1.slots[b].fd, addr, imm), b,
                                w1.slots[b].fd, timeout, within), LAMBDA o :
            With(IF tmp THEN _socket_set_blocking(o.w, id, TRUE, ub) ELSE o.w, LAMBDA w3 :
            IF o.failed THEN [w |-> w3, err |-> 1]
            ELSE With([w3 EXCEPT !.socks[id].address_remote = addr], LAMBDA w4 :
                 [w |-> IF w4.socks[id].address_local = NoAddr
                        THEN _socket_store_address_local(w4, id, addr.fam)
                        ELSE w4,
                  err |-> 0]))))

\* A variant of socket_connect that stores the remote address before it
\* connects.
socket_connect_stores_address_first(w, id, addr, timeout, imm, within, ub) ==
    IF ~objectmap_lookup(w, id) THEN [w |-> w, res |-> FALSE]
    ELSE With(_socket_create_fd(_socket_lookup(w, id), id, addr.fam, ub), LAMBDA c :
         LET b == c.w.socks[id].base
         IN IF c.w.halted THEN [w |-> c.w, res |-> FALSE]
            ELSE IF c.fd = SOCKET_INVALID \/ c.w.slots[b].state # "NOTCONNECTED"
                 THEN [w |-> socket_destroy(c.w, id), res |-> FALSE]
            ELSE With(_tcp_socket_connect(
                          [c.w EXCEPT !.slots[b].flags =
                                          @ \ {"CONNECTION_PENDING", "ERROR_PENDING",
                                               "HANGUP_PENDING"},
                                      !.slots[b].last_event = 0,
                                      !.socks[id].address_remote = addr],
                          id, addr, timeout, imm, within, ub), LAMBDA t :
                 [w |-> socket_destroy(t.w, id), res |-> t.err = 0]))

\* A variant of socket_connect that connects whatever the state of the socket
\* is.
socket_connect_any_state(w, id, addr, timeout, imm, within, ub) ==
    IF ~objectmap_lookup(w, id) THEN [w |-> w, res |-> FALSE]
    ELSE With(_socket_create_fd(_socket_lookup(w, id), id, addr.fam, ub), LAMBDA c :
         IF c.w.halted THEN [w |-> c.w, res |-> FALSE]
         ELSE IF c.fd = SOCKET_INVALID THEN [w |-> socket_destroy(c.w, id), res |-> FALSE]
         ELSE With(_tcp_socket_connect(c.w, id, addr, timeout, imm, within, ub), LAMBDA t :
              IF t.err # 0 THEN [w |-> socket_destroy(t.w, id), res |-> FALSE]
              ELSE [w |-> socket_destroy(
                              [t.w EXCEPT !.socks[id].address_remote = addr], id),
                    res |-> TRUE]))

\* socket_connect: [w, res].
socket_connect(w, id, addr, timeout, imm, within, ub) ==
    IF ~objectmap_lookup(w, id) THEN [w |-> w, res |-> FALSE]
    ELSE With(_socket_create_fd(_socket_lookup(w, id), id, addr.fam, ub), LAMBDA c :
         LET b == c.w.socks[id].base
         IN IF c.w.halted THEN [w |-> c.w, res |-> FALSE]
            ELSE IF c.fd = SOCKET_INVALID \/ c.w.slots[b].state # "NOTCONNECTED"
                 THEN [w |-> socket_destroy(c.w, id), res |-> FALSE]
            ELSE With(_tcp_socket_connect(
                          [c.w EXCEPT !.slots[b].flags =
                                          @ \ {"CONNECTION_PENDING", "ERROR_PENDING",
                                               "HANGUP_PENDING"},
                                      !.slots[b].last_event = 0],
                          id, addr, timeout, imm, within, ub), LAMBDA t :
                 IF t.err # 0 THEN [w |-> socket_destroy(t.w, id), res |-> FALSE]
                 ELSE [w |-> socket_destroy(
                                 [t.w EXCEPT !.socks[id].address_remote = addr], id),
                       res |-> TRUE]))

\* A variant of tcp_socket_listen that does not ask for a bound local address.
tcp_socket_listen_unbound(w, id) ==
    IF ~objectmap_lookup(w, id) THEN [w |-> w, res |-> FALSE]
    ELSE With(_socket_lookup(w, id), LAMBDA w1 :
         LET b == w1.socks[id].base
             sb == w1.slots[b]
         IN IF b < 0 THEN [w |-> socket_destroy(w1, id), res |-> FALSE]
            ELSE IF sb.state # "NOTCONNECTED" \/ sb.fd = SOCKET_INVALID
                 THEN [w |-> socket_destroy(w1, id), res |-> FALSE]
            ELSE IF KListenOk(w1, sb.fd)
                 THEN [w |-> socket_destroy([w1 EXCEPT !.slots[b].state = "LISTENING",
                                                       !.fds[sb.fd].listening = TRUE], id),
                       res |-> TRUE]
                 ELSE [w |-> socket_destroy(w1, id), res |-> FALSE])

\* tcp_socket_listen: [w, res].
tcp_socket_listen(w, id) ==
    IF ~objectmap_lookup(w, id) THEN [w |-> w, res |-> FALSE]
    ELSE With(_socket_lookup(w, id), LAMBDA w1 :
         LET b == w1.socks[id].base
             sb == w1.slots[b]
         IN IF b < 0 THEN [w |-> socket_destroy(w1, id), res |-> FALSE]
            ELSE IF sb.state # "NOTCONNECTED" \/ sb.fd = SOCKET_INVALID
                    \/ w1.socks[id].address_local = NoAddr
                 THEN [w |-> socket_destroy(w1, id), res |-> FALSE]
            ELSE IF KListenOk(w1, sb.fd)
                 THEN [w |-> socket_destroy([w1 EXCEPT !.slots[b].state = "LISTENING",
                                                       !.fds[sb.fd].listening = TRUE], id),
                       res |-> TRUE]
                 ELSE [w |-> socket_destroy(w1, id), res |-> FALSE])

\* accept() on the listener's descriptor lfd, with the select() that follows an
\* empty queue when there is a timeout: [w, fd], fd -1 when no connection was
\* taken. A listener whose queue is empty gets a connection while it waits
\* (select, or an accept that blocks) when a connect to it is in progress and
\* ends in time (within); an accept that blocks with nothing to wait for does
\* not return.
AcceptWait(w, lfd, timeout, within, inh) ==
    LET waits == ~w.fds[lfd].nonblock \/ timeout > 0
        arriving == Connecting(w, lfd)
    IN With(IF w.fds[lfd].backlog = <<>> /\ waits /\ within /\ arriving # {}
            THEN KConnectDone(w, MinOf(arriving))
            ELSE w, LAMBDA wq :
       IF wq.fds[lfd].backlog # <<>> THEN KAccept(wq, lfd, inh)
       ELSE IF ~w.fds[lfd].nonblock THEN [w |-> [w EXCEPT !.blocked = TRUE], fd |-> -1]
       ELSE [w |-> wq, fd |-> -1])

\* A variant of AcceptFinish in which the clone of the listener's address is
\* left as accept() found it.
AcceptFinish_address_not_filled(w4, id, fd, ub) ==
    With(_socket_allocate(w4), LAMBDA al :
    IF al.id = 0 THEN [w |-> socket_destroy(w4, id), res |-> 0]
    ELSE With(_socket_allocate_base(al.w, al.id, ub), LAMBDA w5 :
         LET ab == w5.socks[al.id].base
             fam == w5.socks[id].address_local.fam
         IN IF w5.halted THEN [w |-> w5, res |-> 0]
            ELSE IF ab < 0
                 THEN [w |-> socket_destroy(socket_destroy(w5, al.id), id), res |-> 0]
            ELSE [w |-> socket_destroy(
                            _socket_store_address_local(
                                [w5 EXCEPT !.slots[ab].fd = fd,
                                           !.slots[ab].state = "CONNECTED",
                                           !.socks[al.id].address_remote =
                                               w5.socks[id].address_local],
                                al.id, fam),
                            id),
                  res |-> al.id]))

\* A variant of AcceptFinish that keeps the record it allocated when no slot
\* can be claimed for it.
AcceptFinish_keeps_record(w4, id, fd, ub) ==
    With(_socket_allocate(w4), LAMBDA al :
    IF al.id = 0 THEN [w |-> socket_destroy(w4, id), res |-> 0]
    ELSE With(_socket_allocate_base(al.w, al.id, ub), LAMBDA w5 :
         LET ab == w5.socks[al.id].base
             fam == w5.socks[id].address_local.fam
         IN IF w5.halted THEN [w |-> w5, res |-> 0]
            ELSE IF ab < 0
                 THEN [w |-> socket_destroy(w5, id), res |-> 0]
            ELSE [w |-> socket_destroy(
                            _socket_store_address_local(
                                [w5 EXCEPT !.slots[ab].fd = fd,
                                           !.slots[ab].state = "CONNECTED",
                                           !.socks[al.id].address_remote =
                                               Addr(fam, w5.fds[w5.fds[fd].peer].bound.port)],
                                al.id, fam),
                            id),
                  res |-> al.id]))

\* The end of tcp_socket_accept, with the descriptor fd accepted and the
\* listener's other flags cleared: [w, res].
AcceptFinish(w4, id, fd, ub) ==
    With(_socket_allocate(w4), LAMBDA al :
    IF al.id = 0 THEN [w |-> socket_destroy(w4, id), res |-> 0]
    ELSE With(_socket_allocate_base(al.w, al.id, ub), LAMBDA w5 :
         LET ab == w5.socks[al.id].base
             fam == w5.socks[id].address_local.fam
         IN IF w5.halted THEN [w |-> w5, res |-> 0]
            ELSE IF ab < 0
                 THEN [w |-> socket_destroy(socket_destroy(w5, al.id), id), res |-> 0]
            ELSE [w |-> socket_destroy(
                            _socket_store_address_local(
                                [w5 EXCEPT !.slots[ab].fd = fd,
                                           !.slots[ab].state = "CONNECTED",
                                           !.socks[al.id].address_remote =
                                               Addr(fam, w5.fds[w5.fds[fd].peer].bound.port)],
                                al.id, fam),
                            id),
                  res |-> al.id]))

\* tcp_socket_accept: [w, res], res the new id or 0.
tcp_socket_accept(w, id, timeout, within, inh, ub) ==
    IF ~objectmap_lookup(w, id) THEN [w |-> w, res |-> 0]
    ELSE With(_socket_lookup(w, id), LAMBDA w1 :
         LET b == w1.socks[id].base
             sb == w1.slots[b]
             tmp == timeout > 0 /\ "BLOCKING" \in sb.flags
         IN IF b < 0 THEN [w |-> socket_destroy(w1, id), res |-> 0]
            ELSE IF sb.state # "LISTENING" \/ sb.fd = SOCKET_INVALID
                    \/ w1.socks[id].address_local = NoAddr
                 THEN [w |-> socket_destroy(w1, id), res |-> 0]
            ELSE With(AcceptWait(IF tmp THEN _socket_set_blocking(w1, id, FALSE, ub) ELSE w1,
                                 sb.fd, timeout, within, inh), LAMBDA a :
                 IF a.w.blocked THEN [w |-> a.w, res |-> 0]
                 ELSE With([(IF tmp THEN _socket_set_blocking(a.w, id, TRUE, ub) ELSE a.w)
                            EXCEPT !.slots[b].flags = @ \cap {"CONNECTION_PENDING"}],
                           LAMBDA w4 :
                      IF a.fd < 0 THEN [w |-> socket_destroy(w4, id), res |-> 0]
                      ELSE AcceptFinish(w4, id, a.fd, ub))))

----------------------------------------------------------------------------
\* The kernel: data.

\* Room left for data on its way to, or waiting at, the receiver of fd's data.
KSpace(w, fd) ==
    LET p == w.fds[fd].peer
    IN IF p = 0 THEN KBuf - Len(w.fds[fd].pend)
       ELSE KBuf - Len(w.fds[p].net) - Len(w.fds[p].rx)

\* send(): [w, res, err]. res > 0 bytes taken, or -1 with err. A blocking
\* descriptor takes all or does not return.
KSend(w, fd, data) ==
    LET k == w.fds[fd]
        n == Min(Len(data), KSpace(w, fd))
        taken == SubSeq(data, 1, n)
    IN IF ~FdOpen(w, fd) \/ k.conn # "established" THEN [w |-> w, res |-> -1, err |-> "ENOTCONN"]
       ELSE IF k.reset THEN [w |-> w, res |-> -1, err |-> "ECONNRESET"]
       ELSE IF k.peer = 0 /\ k.fin THEN [w |-> w, res |-> -1, err |-> "EPIPE"]
       ELSE IF n = 0 /\ k.nonblock THEN [w |-> w, res |-> -1, err |-> "EAGAIN"]
       ELSE IF n < Len(data) /\ ~k.nonblock
            THEN [w |-> [w EXCEPT !.blocked = TRUE], res |-> -1, err |-> "EAGAIN"]
       ELSE IF k.peer = 0
            THEN [w |-> [w EXCEPT !.fds[fd].pend = @ \o taken], res |-> n, err |-> "none"]
            ELSE [w |-> [w EXCEPT !.fds[k.peer].net = @ \o taken], res |-> n, err |-> "none"]

\* The network delivers n of the bytes on their way to fd.
KDeliver(w, fd, n) ==
    [w EXCEPT !.fds[fd].rx = @ \o SubSeq(w.fds[fd].net, 1, n),
              !.fds[fd].net = SubSeq(@, n + 1, Len(@))]

\* recv() with the descriptor's receive queue as it is: [w, res, err, data].
KRecvNow(w, fd, n) ==
    LET k == w.fds[fd]
        m == Min(n, Len(k.rx))
        none == [w |-> w, res |-> -1, err |-> "none", data |-> <<>>]
    IN IF ~FdOpen(w, fd) THEN [none EXCEPT !.err = "EBADF"]
       ELSE IF k.rx # <<>>
            THEN [w |-> [w EXCEPT !.fds[fd].rx = SubSeq(@, m + 1, Len(@))],
                  res |-> m, err |-> "none", data |-> SubSeq(k.rx, 1, m)]
       ELSE IF k.reset THEN [none EXCEPT !.err = "ECONNRESET"]
       ELSE IF k.conn # "established" THEN [none EXCEPT !.err = "ENOTCONN"]
       ELSE IF k.fin /\ k.net = <<>> THEN [none EXCEPT !.res = 0]
       ELSE IF k.nonblock THEN [none EXCEPT !.err = "EAGAIN"]
       ELSE [none EXCEPT !.w = [w EXCEPT !.blocked = TRUE], !.err = "EAGAIN"]

\* recv(): res > 0 bytes received, 0 at the end of the stream, -1 with err. A
\* blocking descriptor with nothing received waits for the network, which
\* delivers up to kd bytes; with nothing on its way it does not return.
KRecv(w, fd, n, kd) ==
    LET k == w.fds[fd]
    IN IF FdOpen(w, fd) /\ k.rx = <<>> /\ ~k.nonblock /\ k.net # <<>>
       THEN KRecvNow(KDeliver(w, fd, Min(kd, Len(k.net))), fd, n)
       ELSE KRecvNow(w, fd, n)

\* The error codes that end the connection (POSIX list).
Teardown(err) == err \in {"ECONNRESET", "EPIPE", "ETIMEDOUT"}

----------------------------------------------------------------------------
\* Buffered read and write.

\* A variant of CloseAndHangup that posts the event whenever it is called and
\* leaves the socket as it is.
CloseAndHangup_event_only(w, id, b) ==
    [w EXCEPT !.events = Append(@, <<"HANGUP", id>>)]

\* _socket_close, then the HANGUP flag is set in what was the socket's slot
\* and the event posted, unless the flag is set there.
CloseAndHangup(w, id, b) ==
    With(_socket_close(w, id), LAMBDA w1 :
    IF "HANGUP_PENDING" \in w1.slots[b].flags THEN w1
    ELSE [w1 EXCEPT !.slots[b].flags = @ \cup {"HANGUP_PENDING"},
                    !.events = Append(@, <<"HANGUP", id>>)])

\* A variant of MaxReadIn that lets recv() fill the ring up to the read offset.
MaxReadIn_to_read_offset(s) ==
    IF s.offset_write_in >= s.offset_read_in
    THEN RB - s.offset_write_in
    ELSE s.offset_read_in - s.offset_write_in

\* The room recv() may fill in the ring from the write offset on.
MaxReadIn(s) ==
    IF s.offset_write_in >= s.offset_read_in
    THEN (RB - s.offset_write_in) - (IF s.offset_read_in = 0 THEN 1 ELSE 0)
    ELSE s.offset_read_in - s.offset_write_in - 1

\* available is an unsigned int: a failed _socket_available_fd (-1) is the
\* largest value.
AvailableUnsigned(w, fd) ==
    LET av == _socket_available_fd(w, fd)
    IN IF av < 0 THEN RB + KBuf + 1 ELSE av

\* A variant of TryRead that always asks for the whole free write region.
TryRead_whole_region(s, wanted_size, available) == MaxReadIn(s)

\* The size given to recv().
TryRead(s, wanted_size, available) ==
    LET max_read == MaxReadIn(s)
        try0 == IF wanted_size # 0 /\ max_read > wanted_size THEN wanted_size ELSE max_read
    IN IF available > try0 THEN Min(max_read, available) ELSE try0

\* The received bytes r.data are in the ring of the socket at the write
\* offset off, which moves on and wraps.
StoreIn(r, id, off) ==
    [r.w EXCEPT !.socks[id].buffer_in =
                    [i \in 0..(RB - 1) |->
                       IF i >= off /\ i < off + r.res THEN r.data[i - off + 1] ELSE @[i]],
                !.socks[id].offset_write_in = IF @ + r.res >= RB THEN 0 ELSE @ + r.res]

RECURSIVE _tcp_socket_buffer_read(_, _, _, _, _)

_tcp_socket_buffer_read(w, id, wanted_size, kd, exc) ==
    LET s == w.socks[id]
        b == s.base
        sb == w.slots[b]
        available == AvailableUnsigned(w, sb.fd)
        try_read == TryRead(s, wanted_size, available)
    IN IF b < 0 \/ MaxReadIn(s) = 0 THEN w
       ELSE IF available = 0 /\ wanted_size = 0 /\ "BLOCKING" \in sb.flags THEN w
       ELSE With(KRecv(w, sb.fd, try_read, kd), LAMBDA r :
            IF r.w.blocked THEN r.w
            ELSE IF r.res = 0 THEN CloseAndHangup(r.w, id, b)
            ELSE IF r.res < 0
                 THEN _socket_poll_state(
                          IF Teardown(r.err) THEN CloseAndHangup(r.w, id, b) ELSE r.w,
                          b, exc)
            ELSE With(StoreIn(r, id, s.offset_write_in), LAMBDA w1 :
                 IF w1.slots[b].state = "CONNECTED" /\ try_read < wanted_size
                    /\ available > try_read /\ w1.socks[id].offset_write_in = 0
                    /\ w1.socks[id].offset_read_in > 1
                 THEN _tcp_socket_buffer_read(w1, id, wanted_size - try_read, kd, exc)
                 ELSE w1))

\* A variant of SendFailed that reduces offset_write_out and leaves the bytes of
\* the out-buffer where they are.
SendFailed_offset_only(r, id, b, sent, out, exc) ==
    [r.w EXCEPT !.socks[id].offset_write_out = out - sent]

\* What the send loop does when send() failed with r = [w, res, err], sent
\* bytes gone before: the unsent bytes move to the front of the buffer.
SendFailed(r, id, b, sent, out, exc) ==
    With(IF r.err = "EAGAIN" THEN [r.w EXCEPT !.slots[b].flags = @ \cup {"REFLUSH"}]
         ELSE r.w, LAMBDA w1 :
    With(IF Teardown(r.err) THEN CloseAndHangup(w1, id, b) ELSE w1, LAMBDA w2 :
    With(IF w2.slots[b].state # "NOTCONNECTED" THEN _socket_poll_state(w2, b, exc) ELSE w2,
         LAMBDA w3 :
    IF sent > 0
    THEN [w3 EXCEPT !.socks[id].buffer_out =
                        [i \in 0..(WB - 1) |-> IF i < out - sent THEN @[i + sent] ELSE @[i]],
                    !.socks[id].offset_write_out = out - sent]
    ELSE w3)))

RECURSIVE BufferWriteLoop(_, _, _, _, _)

\* The send loop of _tcp_socket_buffer_write, with sent bytes gone so far.
BufferWriteLoop(w, id, b, sent, exc) ==
    LET s == w.socks[id]
        out == s.offset_write_out
    IN IF sent >= out
       THEN [w EXCEPT !.slots[b].flags = @ \ {"REFLUSH"},
                      !.socks[id].offset_write_out = 0]
       ELSE With(KSend(w, w.slots[b].fd,
                       [i \in 1..(out - sent) |-> s.buffer_out[sent + i - 1]]), LAMBDA r :
            IF r.w.blocked THEN r.w
            ELSE IF r.res > 0 THEN BufferWriteLoop(r.w, id, b, sent + r.res, exc)
            ELSE SendFailed(r, id, b, sent, out, exc))

\* A variant of _tcp_socket_buffer_write that leaves the REFLUSH flag as it
\* was when the out-buffer is drained.
_tcp_socket_buffer_write_keeps_reflush(w, id, exc) ==
    IF w.socks[id].base < 0 THEN w
    ELSE With(BufferWriteLoop(w, id, w.socks[id].base, 0, exc), LAMBDA w1 :
         IF w1.socks[id].base >= 0 /\ "REFLUSH" \in w.slots[w.socks[id].base].flags
         THEN [w1 EXCEPT !.slots[w.socks[id].base].flags = @ \cup {"REFLUSH"}]
         ELSE w1)

_tcp_socket_buffer_write(w, id, exc) ==
    IF w.socks[id].base < 0 THEN w
    ELSE BufferWriteLoop(w, id, w.socks[id].base, 0, exc)

\* _socket_doflush.
_socket_doflush(w, id, exc) ==
    LET s == w.socks[id]
    IN IF s.base < 0 \/ s.offset_write_out = 0 THEN w
       ELSE IF w.slots[s.base].state # "CONNECTED" THEN w
       ELSE _tcp_socket_buffer_write(w, id, exc)

----------------------------------------------------------------------------
\* The registry and the flag accessors.

\* tcp_socket_create (_tcp_socket_allocate): [w, id].
tcp_socket_create(w) == _socket_allocate(w)

\* socket_ref: [w, res].
socket_ref(w, id) ==
    [w |-> _socket_lookup(w, id), res |-> IF objectmap_lookup(w, id) THEN id ELSE 0]

\* A variant of socket_is_socket that keeps the reference of its lookup.
socket_is_socket_keeps_reference(w, id) ==
    [w |-> _socket_lookup(w, id), res |-> objectmap_lookup(w, id)]

\* socket_is_socket: [w, res].
socket_is_socket(w, id) ==
    [w |-> socket_destroy(_socket_lookup(w, id), id), res |-> objectmap_lookup(w, id)]

\* The flag getters socket_blocking, socket_reuse_address, socket_reuse_port.
FlagGetter(w, id, flag) ==
    LET b == w.socks[id].base
    IN IF ~objectmap_lookup(w, id) THEN [w |-> w, res |-> FALSE]
       ELSE [w |-> socket_destroy(_socket_lookup(w, id), id),
             res |-> b >= 0 /\ flag \in w.slots[b].flags]

socket_blocking(w, id) == FlagGetter(w, id, "BLOCKING")

socket_reuse_address(w, id) == FlagGetter(w, id, "REUSE_ADDR")

socket_reuse_port(w, id) == FlagGetter(w, id, "REUSE_PORT")

\* The end of a setter: the reference of the lookup is given back.
SetterDone(w1, id) == IF w1.halted THEN w1 ELSE socket_destroy(w1, id)

socket_set_blocking(w, id, block, ub) ==
    IF ~objectmap_lookup(w, id) THEN w
    ELSE With(_socket_set_blocking(_socket_lookup(w, id), id, block, ub),
              LAMBDA w1 : SetterDone(w1, id))

socket_set_reuse_address(w, id, reuse, ub) ==
    IF ~objectmap_lookup(w, id) THEN w
    ELSE With(_socket_set_reuse_address(_socket_lookup(w, id), id, reuse, ub),
              LAMBDA w1 : SetterDone(w1, id))

socket_set_reuse_port(w, id, reuse, ub) ==
    IF ~objectmap_lookup(w, id) THEN w
    ELSE With(_socket_set_reuse_port(_socket_lookup(w, id), id, reuse, ub),
              LAMBDA w1 : SetterDone(w1, id))

\* socket_set_multicast_group: [w, res]. No return path gives the reference of
\* the lookup back. mok is the outcome of the IP_ADD_MEMBERSHIP setsockopt.
socket_set_multicast_group(w, id, mok, ub) ==
    IF ~objectmap_lookup(w, id) THEN [w |-> w, res |-> FALSE]
    ELSE With(_socket_allocate_base(_socket_lookup(w, id), id, ub), LAMBDA w1 :
         LET b == w1.socks[id].base
         IN IF w1.halted \/ b < 0 THEN [w |-> w1, res |-> FALSE]
            ELSE IF w1.slots[b].fd = SOCKET_INVALID THEN [w |-> w1, res |-> FALSE]
            ELSE [w |-> w1, res |-> mok])

\* socket_address_local: [w, res].
socket_address_local(w, id) ==
    IF ~objectmap_lookup(w, id) THEN [w |-> w, res |-> NoAddr]
    ELSE [w |-> socket_destroy(_socket_lookup(w, id), id), res |-> w.socks[id].address_local]

\* socket_address_remote: [w, res].
socket_address_remote(w, id) ==
    IF ~objectmap_lookup(w, id) THEN [w |-> w, res |-> NoAddr]
    ELSE [w |-> socket_destroy(_socket_lookup(w, id), id), res |-> w.socks[id].address_remote]

\* socket_state: [w, res]; with a slot, what _socket_poll_state returns.
socket_state(w, id, exc) ==
    LET b == w.socks[id].base
    IN IF ~objectmap_lookup(w, id) THEN [w |-> w, res |-> "NOTCONNECTED"]
       ELSE IF b < 0
            THEN [w |-> socket_destroy(_socket_lookup(w, id), id), res |-> "NOTCONNECTED"]
       ELSE With(_socket_poll_state(_socket_lookup(w, id), b, exc), LAMBDA w2 :
            IF w2.halted THEN [w |-> w2, res |-> "NOTCONNECTED"]
            ELSE [w |-> socket_destroy(w2, id), res |-> w2.slots[b].state])

\* A variant of socket_close that closes the descriptor and leaves the slot and
\* the record as they are.
socket_close_descriptor_only(w, id) ==
    LET b == w.socks[id].base
    IN IF ~objectmap_lookup(w, id) \/ b < 0 THEN w
       ELSE _socket_close_fd(w, w.slots[b].fd)

\* A variant of socket_close that keeps the reference of its lookup.
socket_close_keeps_reference(w, id) ==
    IF ~objectmap_lookup(w, id) THEN w
    ELSE _socket_close(_socket_lookup(w, id), id)

\* socket_close.
socket_close(w, id) ==
    IF ~objectmap_lookup(w, id) THEN w
    ELSE socket_destroy(_socket_close(_socket_lookup(w, id), id), id)

\* tcp_socket_delay: [w, res]. The reference is given back only when the socket
\* has a slot.
tcp_socket_delay(w, id) ==
    LET b == w.socks[id].base
    IN IF ~objectmap_lookup(w, id) THEN [w |-> w, res |-> FALSE]
       ELSE IF b < 0 THEN [w |-> _socket_lookup(w, id), res |-> FALSE]
       ELSE [w |-> socket_destroy(_socket_lookup(w, id), id),
             res |-> "TCPDELAY" \in w.slots[b].flags]

tcp_socket_set_delay(w, id, delay) ==
    IF ~objectmap_lookup(w, id) THEN w
    ELSE socket_destroy(_tcp_socket_set_delay(_socket_lookup(w, id), id, delay), id)

----------------------------------------------------------------------------
\* The stream adapter. A stream is named by the id it was made for.

_socket_stream_allocate(w, id) ==
    [w EXCEPT !.streams[id] = [live |-> TRUE, socket |-> id]]

\* A variant of socket_stream that keeps the reference of its lookup on every
\* call.
socket_stream_keeps_every_reference(w, id) ==
    IF ~objectmap_lookup(w, id) THEN [w |-> w, res |-> 0]
    ELSE IF w.socks[id].stream = 0
         THEN [w |-> [_socket_stream_allocate(_socket_lookup(w, id), id)
                        EXCEPT !.socks[id].stream = id],
               res |-> id]
         ELSE [w |-> _socket_lookup(w, id), res |-> w.socks[id].stream]

\* socket_stream: [w, res]; res is the stream, 0 for null. The first call keeps
\* the reference of its lookup for the stream.
socket_stream(w, id) ==
    IF ~objectmap_lookup(w, id) THEN [w |-> w, res |-> 0]
    ELSE IF w.socks[id].stream = 0
         THEN [w |-> [_socket_stream_allocate(_socket_lookup(w, id), id)
                        EXCEPT !.socks[id].stream = id],
               res |-> id]
         ELSE [w |-> socket_destroy(_socket_lookup(w, id), id), res |-> w.socks[id].stream]

\* The socket a stream call works on, 0 when the lookup finds none.
StreamSocket(w, s) ==
    LET id == w.streams[s].socket
    IN IF id # 0 /\ objectmap_lookup(w, id) THEN id ELSE 0

\* What one pass of the inner loop of _socket_read copies.
CopyIn(s, size, was_read) ==
    Min(IF s.offset_write_in >= s.offset_read_in
        THEN s.offset_write_in - s.offset_read_in
        ELSE RB - s.offset_read_in,
        size - was_read)

RECURSIVE DrainRing(_, _, _)

\* The inner loop of _socket_read: copy from the ring what is there, up to the
\* read position's wrap, until nothing more is copied. Every memcpy writes at
\* the START of the destination: buffer is never advanced.
\* st = [sock, was_read, buf, any].
DrainRing(st, size, hasbuf) ==
    LET s == st.sock
        copy == CopyIn(s, size, st.was_read)
        at == s.offset_read_in + copy
    IN IF copy = 0 THEN st
       ELSE DrainRing(
                [sock |-> [s EXCEPT !.offset_read_in = IF at = RB THEN 0 ELSE at],
                 was_read |-> st.was_read + copy,
                 buf |-> IF hasbuf
                         THEN [i \in DOMAIN st.buf |->
                                 IF i < copy THEN s.buffer_in[s.offset_read_in + i]
                                 ELSE st.buf[i]]
                         ELSE st.buf,
                 any |-> TRUE],
                size, hasbuf)

RECURSIVE ReadLoop(_, _)

\* The outer loop of _socket_read. c = [id, b, size, hasbuf, refill, kd, garb,
\* exc], st = [w, was_read, buf, loop_counter]. read_fn is a function that
\* returns nothing, and its result is compared with 0: garb is what the
\* comparison sees. A loop that goes on with nothing changed never ends.
ReadLoop(c, st) ==
    With(DrainRing([sock |-> st.w.socks[c.id], was_read |-> st.was_read,
                    buf |-> st.buf, any |-> FALSE], c.size, c.hasbuf), LAMBDA d :
    With([st.w EXCEPT !.socks[c.id] = d.sock], LAMBDA w1 :
    LET calls == d.was_read < c.size /\ c.refill
        try_again == d.any \/ (calls /\ c.garb)
        lc == IF try_again THEN st.loop_counter ELSE st.loop_counter + 1
    IN With(IF calls
            THEN _tcp_socket_buffer_read(w1, c.id, c.size - d.was_read, c.kd, c.exc)
            ELSE w1, LAMBDA w2 :
       With([w |-> w2, was_read |-> d.was_read, buf |-> d.buf, loop_counter |-> lc],
            LAMBDA out :
       IF w2.blocked \/ w2.halted THEN out
       ELSE IF ~(d.was_read < c.size /\ (try_again \/ lc < 2)) THEN out
       ELSE IF try_again /\ ~d.any /\ w2 = w1
            THEN [out EXCEPT !.w = [w2 EXCEPT !.halted = TRUE]]
       ELSE ReadLoop(c, out)))))

\* The caller's buffer before a read.
Buf0(size) == [i \in 0..(size - 1) |-> Zero]

\* _socket_read: [w, res, buf]; buf is the caller's buffer afterwards (hasbuf
\* FALSE: a null buffer, as _socket_seek passes). Without a slot the function
\* returns before it gives the reference of its lookup back.
_socket_read(w, s, size, hasbuf, kd, garb, exc) ==
    LET id == StreamSocket(w, s)
        b == w.socks[id].base
        sb == w.slots[b]
    IN IF id = 0 THEN [w |-> w, res |-> 0, buf |-> Buf0(size)]
       ELSE IF b < 0 THEN [w |-> _socket_lookup(w, id), res |-> 0, buf |-> Buf0(size)]
       ELSE With([_socket_lookup(w, id) EXCEPT !.slots[b].last_event = 0], LAMBDA w2 :
            IF sb.state \notin {"CONNECTED", "DISCONNECTED"} \/ size = 0
            THEN [w |-> socket_destroy(w2, id), res |-> 0, buf |-> Buf0(size)]
            ELSE With(ReadLoop([id |-> id, b |-> b, size |-> size, hasbuf |-> hasbuf,
                                refill |-> "BLOCKING" \in sb.flags \/ "POLLED" \notin sb.flags,
                                kd |-> kd, garb |-> garb, exc |-> exc],
                               [w |-> w2, was_read |-> 0, buf |-> Buf0(size),
                                loop_counter |-> 0]), LAMBDA r :
                 IF r.w.blocked \/ r.w.halted THEN [w |-> r.w, res |-> 0, buf |-> r.buf]
                 ELSE With(IF r.was_read < size THEN _socket_poll_state(r.w, b, exc)
                           ELSE r.w, LAMBDA w3 :
                      IF w3.halted THEN [w |-> w3, res |-> 0, buf |-> r.buf]
                      ELSE [w |-> socket_destroy(
                                      [w3 EXCEPT !.socks[id].bytes_read = @ + r.was_read], id),
                            res |-> r.was_read, buf |-> r.buf])))

RECURSIVE WriteLoop(_, _, _, _)

\* The loop of _socket_write: [w, was_written].
WriteLoop(w, c, data, was_written) ==
    LET out == w.socks[c.id].offset_write_out
        remain == WB - out
        size == Len(data)
        n == IF size <= remain THEN size ELSE remain
    IN With([w EXCEPT !.socks[c.id].buffer_out =
                          [i \in 0..(WB - 1) |->
                             IF i >= out /\ i < out + n THEN data[i - out + 1] ELSE @[i]],
                      !.socks[c.id].offset_write_out = out + n], LAMBDA w1 :
       IF size <= remain THEN [w |-> w1, was_written |-> was_written + n]
       ELSE With(_socket_doflush(w1, c.id, c.exc), LAMBDA w2 :
            IF w2.blocked \/ w2.halted THEN [w |-> w2, was_written |-> was_written + n]
            ELSE IF w2.slots[c.b].state # "CONNECTED"
                 THEN [w |-> w2, was_written |-> was_written + n]
            ELSE IF WB - w2.socks[c.id].offset_write_out = 0
                 THEN [w |-> w2, was_written |-> was_written + n]
            ELSE WriteLoop(w2, c, SubSeq(data, n + 1, size), was_written + n)))

\* A variant of _socket_write that buffers and sends whatever the state is.
_socket_write_any_state(w, s, data, exc) ==
    LET id == StreamSocket(w, s)
        b == w.socks[id].base
    IN IF id = 0 THEN [w |-> w, res |-> 0]
       ELSE IF b < 0 THEN [w |-> _socket_lookup(w, id), res |-> 0]
       ELSE IF data = <<>>
            THEN [w |-> socket_destroy(_socket_lookup(w, id), id), res |-> 0]
       ELSE With(WriteLoop(_socket_lookup(w, id), [id |-> id, b |-> b, exc |-> exc],
                           data, 0), LAMBDA r :
            IF r.w.blocked \/ r.w.halted THEN [w |-> r.w, res |-> 0]
            ELSE [w |-> socket_destroy(
                            [r.w EXCEPT !.socks[id].bytes_written = @ + r.was_written], id),
                  res |-> r.was_written])

\* _socket_write: [w, res]. Without a slot the function returns before it gives
\* the reference of its lookup back.
_socket_write(w, s, data, exc) ==
    LET id == StreamSocket(w, s)
        b == w.socks[id].base
    IN IF id = 0 THEN [w |-> w, res |-> 0]
       ELSE IF b < 0 THEN [w |-> _socket_lookup(w, id), res |-> 0]
       ELSE IF w.slots[b].state # "CONNECTED" \/ data = <<>>
            THEN [w |-> socket_destroy(_socket_lookup(w, id), id), res |-> 0]
       ELSE With(WriteLoop(_socket_lookup(w, id), [id |-> id, b |-> b, exc |-> exc],
                           data, 0), LAMBDA r :
            IF r.w.blocked \/ r.w.halted THEN [w |-> r.w, res |-> 0]
            ELSE [w |-> socket_destroy(
                            [r.w EXCEPT !.socks[id].bytes_written = @ + r.was_written], id),
                  res |-> r.was_written])

\* A variant of _socket_eos that says false for a socket without a slot.
_socket_eos_false_without_slot(w, s, exc) ==
    LET id == StreamSocket(w, s)
        b == w.socks[id].base
    IN IF id = 0 THEN [w |-> w, res |-> TRUE]
       ELSE IF b < 0 THEN [w |-> _socket_lookup(w, id), res |-> FALSE]
       ELSE With(_socket_poll_state(_socket_lookup(w, id), b, exc), LAMBDA w2 :
            IF w2.halted THEN [w |-> w2, res |-> TRUE]
            ELSE [w |-> socket_destroy(w2, id),
                  res |-> (w2.slots[b].state # "CONNECTED"
                           \/ w2.slots[b].fd = SOCKET_INVALID)
                          /\ _socket_available_nonblock_read(w2, id) = 0])

\* _socket_eos: [w, res].
_socket_eos(w, s, exc) ==
    LET id == StreamSocket(w, s)
        b == w.socks[id].base
    IN IF id = 0 THEN [w |-> w, res |-> TRUE]
       ELSE IF b < 0 THEN [w |-> _socket_lookup(w, id), res |-> TRUE]
       ELSE With(_socket_poll_state(_socket_lookup(w, id), b, exc), LAMBDA w2 :
            IF w2.halted THEN [w |-> w2, res |-> TRUE]
            ELSE [w |-> socket_destroy(w2, id),
                  res |-> (w2.slots[b].state # "CONNECTED"
                           \/ w2.slots[b].fd = SOCKET_INVALID)
                          /\ _socket_available_nonblock_read(w2, id) = 0])

\* A variant of _socket_available_read that counts the in-ring only.
_socket_available_read_ring_only(w, s) ==
    LET id == StreamSocket(w, s)
    IN IF id = 0 THEN [w |-> w, res |-> 0]
       ELSE IF w.socks[id].base < 0 THEN [w |-> _socket_lookup(w, id), res |-> 0]
       ELSE [w |-> socket_destroy(_socket_lookup(w, id), id),
             res |-> _socket_buffered_in(w.socks[id])]

\* _socket_available_read: [w, res].
_socket_available_read(w, s) ==
    LET id == StreamSocket(w, s)
    IN IF id = 0 THEN [w |-> w, res |-> 0]
       ELSE IF w.socks[id].base < 0 THEN [w |-> _socket_lookup(w, id), res |-> 0]
       ELSE [w |-> socket_destroy(_socket_lookup(w, id), id),
             res |-> _socket_available_nonblock_read(w, id)]

\* _socket_buffer_read.
_socket_buffer_read(w, s, kd, exc) ==
    LET id == StreamSocket(w, s)
        b == w.socks[id].base
        sb == w.slots[b]
        available == _socket_available_fd(w, sb.fd)
    IN IF id = 0 THEN w
       ELSE IF b < 0 THEN _socket_lookup(w, id)
       ELSE IF sb.state # "CONNECTED" \/ "POLLED" \in sb.flags \/ sb.fd = SOCKET_INVALID
            THEN socket_destroy(_socket_lookup(w, id), id)
       ELSE IF _socket_buffered_in(w.socks[id]) = RB
            THEN socket_destroy(_socket_lookup(w, id), id)
       ELSE With(IF available > 0
                 THEN _tcp_socket_buffer_read(_socket_lookup(w, id), id, available, kd, exc)
                 ELSE _socket_lookup(w, id), LAMBDA w2 :
            IF w2.blocked \/ w2.halted THEN w2 ELSE socket_destroy(w2, id))

\* _socket_flush.
_socket_flush(w, s, exc) ==
    LET id == StreamSocket(w, s)
    IN IF id = 0 THEN w
       ELSE With(_socket_doflush(_socket_lookup(w, id), id, exc), LAMBDA w1 :
            IF w1.blocked \/ w1.halted THEN w1 ELSE socket_destroy(w1, id))

\* _socket_seek: forward (a read into no buffer) or an error that is logged.
_socket_seek(w, s, forward, offset, kd, garb, exc) ==
    LET id == StreamSocket(w, s)
    IN IF id = 0 THEN w
       ELSE With(IF forward
                 THEN _socket_read(_socket_lookup(w, id), s, offset, FALSE, kd, garb, exc).w
                 ELSE _socket_lookup(w, id), LAMBDA w2 :
            IF w2.blocked \/ w2.halted THEN w2 ELSE socket_destroy(w2, id))

\* _socket_tell: [w, res].
_socket_tell(w, s) ==
    LET id == StreamSocket(w, s)
    IN IF id = 0 THEN [w |-> w, res |-> 0]
       ELSE [w |-> socket_destroy(_socket_lookup(w, id), id), res |-> w.socks[id].bytes_read]

----------------------------------------------------------------------------
\* The state machine: one action per call of the public interface, and the
\* kernel's own steps.

\* The world the variables hold.
W ==
    [socks |-> socks, slots |-> slots, next |-> base_next, map |-> objmap.map,
     nid |-> objmap.nid, fds |-> fds, streams |-> streams, events |-> events,
     halted |-> halted, blocked |-> FALSE]

\* The handles the application has: the ids it was given so far, the destroyed
\* ones among them.
Handles == {i \in Ids : i < objmap.nid}

\* The outcomes of undefined behaviour in _socket_allocate_base that differ in
\* this state: all of them once no slot at or after the cursor is free.
UBNow == IF base_next < 0 \/ FreeFrom(W, base_next) = {} THEN UBS ELSE {"skip"}

\* A wait with a timeout ends in time or not; without a timeout nothing waits.
Waits == {<<0, FALSE>>, <<1, FALSE>>, <<1, TRUE>>}

\* What the history keeps per id. life: "none", "fresh" (made by
\* tcp_socket_create, and since then only set_blocking, blocking, bind, the
\* address getters, state and is_socket were called on it), "freed" (fresh,
\* then one socket_free), "other". closed: "no", "closed" (socket_close was
\* called), "reconnected" (and then socket_connect returned true).
Hist0 == [life |-> [i \in Ids |-> "none"], closed |-> [i \in Ids |-> "no"]]

QuietOps == {"set_blocking", "blocking", "bind", "address_local", "address_remote",
             "state", "is_socket"}

HistAfter(op, id, res) ==
    IF id \notin Ids THEN hist
    ELSE [life |-> [hist.life EXCEPT ![id] =
                       CASE @ = "freed" -> "freed"
                         [] op = "create" -> "fresh"
                         [] @ = "none" -> "none"
                         [] op \in QuietOps -> @
                         [] op = "destroy" /\ @ = "fresh" -> "freed"
                         [] OTHER -> "other"],
          closed |-> [hist.closed EXCEPT ![id] =
                       CASE op = "close" /\ id \in objmap.map -> "closed"
                         [] op = "connect" /\ res = TRUE /\ @ # "no" -> "reconnected"
                         [] OTHER -> @]]

\* The record of a call.
Call(op, id, arg, res, buf) ==
    [op |-> op, id |-> id, arg |-> arg, res |-> res, buf |-> buf]

\* A call that returned leaves the world w; one that does not return in this
\* state (a blocking call with nothing to wait for) is no step. A call that
\* ends the process (w.halted) leaves nothing to observe but that.
Commit(w, l, h) ==
    /\ ~halted
    /\ ~w.blocked
    /\ UNCHANGED threads
    /\ IF w.halted
       THEN /\ halted' = TRUE
            /\ last' = [l EXCEPT !.res = "none", !.buf = <<>>]
            /\ UNCHANGED <<socks, slots, base_next, objmap, fds, streams, events, hist>>
       ELSE /\ \A i \in Ids : w.socks[i].ref <= MaxRef
            /\ Len(w.events) <= MaxEvents
            /\ socks' = w.socks
            /\ slots' = w.slots
            /\ base_next' = w.next
            /\ objmap' = [map |-> w.map, nid |-> w.nid]
            /\ fds' = w.fds
            /\ streams' = w.streams
            /\ events' = w.events
            /\ halted' = FALSE
            /\ last' = l
            /\ hist' = h

Done(op, id, arg, w, res) ==
    Commit(w, Call(op, id, arg, res, <<>>), HistAfter(op, id, res))

Threads == {1, 2}

ThreadIdle == [pc |-> "idle", id |-> 0]

\* The variables hold the world w.
Holds(w) ==
    /\ socks = w.socks
    /\ slots = w.slots
    /\ base_next = w.next
    /\ objmap = [map |-> w.map, nid |-> w.nid]
    /\ fds = w.fds
    /\ streams = w.streams
    /\ events = w.events
    /\ halted = FALSE
    /\ threads = [t \in Threads |-> ThreadIdle]

\* After _socket_initialize.
Init ==
    /\ Holds(World0)
    /\ last = Call("init", 0, 0, 0, <<>>)
    /\ hist = Hist0

Create ==
    /\ objmap.nid <= MaxCreate
    /\ With(tcp_socket_create(W), LAMBDA r : Done("create", r.id, 0, r.w, r.id))

\* The calls take the ids they are made on from ids, among the handles the
\* application has; the full interface makes them on every handle.
Ref(ids) ==
    \E id \in ids \cap Handles :
        With(socket_ref(W, id), LAMBDA r : Done("ref", id, 0, r.w, r.res))

Destroy(ids) ==
    \E id \in ids \cap Handles : Done("destroy", id, 0, socket_destroy(W, id), 0)

IsSocket(ids) ==
    \E id \in ids \cap Handles :
        With(socket_is_socket(W, id), LAMBDA r : Done("is_socket", id, 0, r.w, r.res))

Bind(ids, addrs) ==
    \E id \in ids \cap Handles, addr \in addrs, ub \in UBNow :
        With(socket_bind(W, id, addr, ub), LAMBDA r : Done("bind", id, addr, r.w, r.res))

Connect(ids, addrs, waits) ==
    \E id \in ids \cap Handles, addr \in addrs, t \in waits, imm \in BOOLEAN, ub \in UBNow :
        With(socket_connect(W, id, addr, t[1], imm, t[2], ub),
             LAMBDA r : Done("connect", id, addr, r.w, r.res))

Blocking(ids) ==
    \E id \in ids \cap Handles :
        With(socket_blocking(W, id), LAMBDA r : Done("blocking", id, 0, r.w, r.res))

SetBlocking(ids) ==
    \E id \in ids \cap Handles, block \in BOOLEAN, ub \in UBNow :
        Done("set_blocking", id, block, socket_set_blocking(W, id, block, ub), 0)

ReuseAddress(ids) ==
    \E id \in ids \cap Handles :
        With(socket_reuse_address(W, id), LAMBDA r : Done("reuse_address", id, 0, r.w, r.res))

SetReuseAddress(ids) ==
    \E id \in ids \cap Handles, reuse \in BOOLEAN, ub \in UBNow :
        Done("set_reuse_address", id, reuse, socket_set_reuse_address(W, id, reuse, ub), 0)

ReusePort(ids) ==
    \E id \in ids \cap Handles :
        With(socket_reuse_port(W, id), LAMBDA r : Done("reuse_port", id, 0, r.w, r.res))

SetReusePort(ids) ==
    \E id \in ids \cap Handles, reuse \in BOOLEAN, ub \in UBNow :
        Done("set_reuse_port", id, reuse, socket_set_reuse_port(W, id, reuse, ub), 0)

SetMulticastGroup(ids) ==
    \E id \in ids \cap Handles, mok \in BOOLEAN, ub \in UBNow :
        With(socket_set_multicast_group(W, id, mok, ub),
             LAMBDA r : Done("set_multicast_group", id, 0, r.w, r.res))

AddressLocal(ids) ==
    \E id \in ids \cap Handles :
        With(socket_address_local(W, id), LAMBDA r : Done("address_local", id, 0, r.w, r.res))

AddressRemote(ids) ==
    \E id \in ids \cap Handles :
        With(socket_address_remote(W, id),
             LAMBDA r : Done("address_remote", id, 0, r.w, r.res))

State(ids) ==
    \E id \in ids \cap Handles, exc \in BOOLEAN :
        With(socket_state(W, id, exc), LAMBDA r : Done("state", id, 0, r.w, r.res))

Stream(ids) ==
    \E id \in ids \cap Handles :
        With(socket_stream(W, id), LAMBDA r : Done("stream", id, 0, r.w, r.res))

Close(ids) ==
    \E id \in ids \cap Handles : Done("close", id, 0, socket_close(W, id), 0)

Listen(ids) ==
    \E id \in ids \cap Handles :
        With(tcp_socket_listen(W, id), LAMBDA r : Done("listen", id, 0, r.w, r.res))

\* The id tcp_socket_accept returns starts its history as "other".
Accept(ids, waits) ==
    \E id \in ids \cap Handles, t \in waits, inh \in BOOLEAN, ub \in UBNow :
        /\ objmap.nid <= MaxIds
        /\ With(tcp_socket_accept(W, id, t[1], t[2], inh, ub), LAMBDA r :
               Commit(r.w, Call("accept", id, t[1], r.res, <<>>),
                      IF r.res = 0 THEN HistAfter("accept", id, r.res)
                      ELSE [HistAfter("accept", id, r.res) EXCEPT !.life[r.res] = "other"]))

Delay(ids) ==
    \E id \in ids \cap Handles :
        With(tcp_socket_delay(W, id), LAMBDA r : Done("delay", id, 0, r.w, r.res))

SetDelay(ids) ==
    \E id \in ids \cap Handles, delay \in BOOLEAN :
        Done("set_delay", id, delay, tcp_socket_set_delay(W, id, delay), 0)

\* The calls through a stream are made on a stream that was not deallocated.
LiveStreams == {s \in Ids : streams[s].live}

StreamRead(ss) ==
    \E s \in ss \cap LiveStreams, size \in 1..MaxRead, kd \in 1..KBuf, garb \in BOOLEAN,
       exc \in BOOLEAN :
        With(_socket_read(W, s, size, TRUE, kd, garb, exc), LAMBDA r :
            Commit(r.w, Call("read", streams[s].socket, size, r.res, r.buf),
                   HistAfter("read", streams[s].socket, r.res)))

\* The bytes written are the next bytes of the writer's tape.
Tape(id, from, n) == [i \in 1..n |-> <<id, from + i>>]

StreamWrite(ss) ==
    \E s \in ss \cap LiveStreams, n \in 1..MaxWrite, exc \in BOOLEAN :
        LET id == streams[s].socket
            from == IF id \in Ids THEN socks[id].bytes_written ELSE 0
        IN /\ from + n <= MaxData
           /\ With(_socket_write(W, s, Tape(id, from, n), exc),
                   LAMBDA r : Done("write", id, n, r.w, r.res))

\* A stream write of a writer that writes up to MaxSend bytes in all, more than
\* the kernel's buffer and the out-buffer hold together.
StreamWriteLong(ss) ==
    \E s \in ss \cap LiveStreams, n \in 1..MaxWrite, exc \in BOOLEAN :
        LET id == streams[s].socket
            from == IF id \in Ids THEN socks[id].bytes_written ELSE 0
        IN /\ from + n <= MaxSend
           /\ With(_socket_write(W, s, Tape(id, from, n), exc),
                   LAMBDA r : Done("write", id, n, r.w, r.res))

StreamEos(ss) ==
    \E s \in ss \cap LiveStreams, exc \in BOOLEAN :
        With(_socket_eos(W, s, exc), LAMBDA r : Done("eos", streams[s].socket, 0, r.w, r.res))

StreamAvailableRead(ss) ==
    \E s \in ss \cap LiveStreams :
        With(_socket_available_read(W, s),
             LAMBDA r : Done("available_read", streams[s].socket, 0, r.w, r.res))

StreamBufferRead(ss) ==
    \E s \in ss \cap LiveStreams, kd \in 1..KBuf, exc \in BOOLEAN :
        Done("buffer_read", streams[s].socket, 0, _socket_buffer_read(W, s, kd, exc), 0)

StreamFlush(ss) ==
    \E s \in ss \cap LiveStreams, exc \in BOOLEAN :
        Done("flush", streams[s].socket, 0, _socket_flush(W, s, exc), 0)

StreamSeek(ss) ==
    \E s \in ss \cap LiveStreams, forward \in BOOLEAN, offset \in 1..MaxRead, kd \in 1..KBuf,
       garb \in BOOLEAN, exc \in BOOLEAN :
        Done("seek", streams[s].socket, offset,
             _socket_seek(W, s, forward, offset, kd, garb, exc), 0)

StreamTell(ss) ==
    \E s \in ss \cap LiveStreams :
        With(_socket_tell(W, s), LAMBDA r : Done("tell", streams[s].socket, 0, r.w, r.res))

StreamDeallocate(ss) ==
    \E s \in ss \cap LiveStreams :
        Done("stream_deallocate", streams[s].socket, 0, stream_deallocate(W, s), 0)

\* The network delivers bytes that are on their way.
KernelDeliver ==
    \E fd \in Fds, n \in 1..KBuf :
        /\ fds[fd].open
        /\ n <= Len(fds[fd].net)
        /\ Done("deliver", 0, fd, KDeliver(W, fd, n), 0)

\* A connect in progress ends.
KernelConnectDone ==
    \E fd \in Fds :
        /\ fds[fd].open
        /\ fds[fd].conn = "progress"
        /\ Done("connect_done", 0, fd, KConnectDone(W, fd), 0)

Next ==
    \/ Create \/ Ref(Ids) \/ Destroy(Ids) \/ IsSocket(Ids) \/ Bind(Ids, Addresses)
    \/ Connect(Ids, Addresses, Waits)
    \/ Blocking(Ids) \/ SetBlocking(Ids) \/ ReuseAddress(Ids) \/ SetReuseAddress(Ids)
    \/ ReusePort(Ids) \/ SetReusePort(Ids) \/ SetMulticastGroup(Ids)
    \/ AddressLocal(Ids) \/ AddressRemote(Ids) \/ State(Ids) \/ Stream(Ids) \/ Close(Ids)
    \/ Listen(Ids) \/ Accept(Ids, Waits) \/ Delay(Ids) \/ SetDelay(Ids)
    \/ StreamRead(Ids) \/ StreamWrite(Ids) \/ StreamEos(Ids) \/ StreamAvailableRead(Ids)
    \/ StreamBufferRead(Ids) \/ StreamFlush(Ids) \/ StreamSeek(Ids) \/ StreamTell(Ids)
    \/ StreamDeallocate(Ids) \/ KernelDeliver \/ KernelConnectDone

Spec == Init /\ [][Next]_vars

----------------------------------------------------------------------------
\* The handle registry, the flags and the addresses of sockets that are not
\* connected: the interface without the calls that need a peer.

NextRegistry ==
    \/ Create \/ Destroy(Ids) \/ IsSocket(Ids) \/ Bind(Ids, {Addr(4, 1)})
    \/ Blocking(Ids) \/ SetBlocking(Ids)
    \/ AddressLocal(Ids) \/ AddressRemote(Ids) \/ State(Ids) \/ Delay(Ids)

SpecRegistry == Init /\ [][NextRegistry]_vars

----------------------------------------------------------------------------
\* Sockets that bind to every address, and listen.

NextBind ==
    \/ Create \/ Bind(Ids, Addresses) \/ Listen(Ids) \/ Destroy(Ids)

SpecBind == Init /\ [][NextBind]_vars

----------------------------------------------------------------------------
\* One socket that claims and releases slots until the cursor has passed the
\* table.

NextSlots ==
    \/ Create \/ SetBlocking({1}) \/ Blocking({1}) \/ Bind({1}, {Addr(4, 0)}) \/ Close({1})

SpecSlots == Init /\ [][NextSlots]_vars

----------------------------------------------------------------------------
\* A listener (1), a client (2) and the sockets accept makes, without data.

ListenAddr == Addr(4, 1)

NextConnect ==
    \/ Create \/ Bind({1}, {ListenAddr}) \/ Listen({1, 2}) \/ Connect({2}, {ListenAddr}, Waits)
    \/ Accept({1}, Waits) \/ Close({2, 3}) \/ State({2, 3}) \/ KernelConnectDone

SpecConnect == Init /\ [][NextConnect]_vars

----------------------------------------------------------------------------
\* Two connected sockets that talk through their streams.

\* The world after tcp_socket_create, socket_bind and tcp_socket_listen made the
\* listener 1, tcp_socket_create and socket_connect the client 2, and
\* tcp_socket_accept the server end 3 (whose descriptor inherits the listener's
\* mode or not).
Connected(inh) ==
    With(tcp_socket_create(World0).w, LAMBDA w1 :
    With(socket_bind(w1, 1, ListenAddr, "skip").w, LAMBDA w2 :
    With(tcp_socket_listen(w2, 1).w, LAMBDA w3 :
    With(tcp_socket_create(w3).w, LAMBDA w4 :
    With(socket_connect(w4, 2, ListenAddr, 0, TRUE, FALSE, "skip").w, LAMBDA w5 :
    tcp_socket_accept(w5, 1, 0, FALSE, inh, "skip").w)))))

InitConnected ==
    /\ \E inh \in BOOLEAN : Holds(Connected(inh))
    /\ last = Call("accept", 1, 0, 3, <<>>)
    /\ hist = [life |-> [i \in Ids |-> "other"], closed |-> [i \in Ids |-> "no"]]

\* The client writes and flushes, the network delivers, the server end reads.
NextRoundTrip ==
    \/ Stream({2, 3}) \/ StreamWrite({2}) \/ StreamFlush({2}) \/ KernelDeliver
    \/ StreamRead({3})

SpecRoundTrip == InitConnected /\ [][NextRoundTrip]_vars

\* The client is closed, and connected again, while it and its peer write and
\* it reads.
NextClose ==
    \/ Stream({2, 3}) \/ StreamWrite({2, 3}) \/ KernelDeliver \/ StreamRead({2})
    \/ Close({2}) \/ Connect({2}, {ListenAddr}, {<<0, FALSE>>}) \/ IsSocket({2})
    \/ Destroy({2})

SpecClose == InitConnected /\ [][NextClose]_vars

----------------
\* Threads. A call is a sequence of steps: socket_is_socket is _socket_lookup
\* (objectmap_lookup, then atomic_incr32) and socket_destroy (objectmap_lookup,
\* atomic_decr32, and _socket_deallocate when the count is 0); the steps of the
\* threads interleave. The application gives up the reference tcp_socket_create
\* gave it with one socket_destroy.

\* Where a thread is: "idle"; "incr" (objectmap_lookup found the record, the
\* increment is next); "holding" (it holds the record _socket_lookup returned);
\* "decr" (socket_destroy found the record, the decrement is next); "unmap"
\* (its decrement gave 0, _socket_deallocate is next); "free" (objectmap_free
\* and _socket_close are done, memory_deallocate is next).
ThreadAt(t, pc, id) ==
    /\ threads' = [threads EXCEPT ![t] = [pc |-> pc, id |-> id]]
    /\ UNCHANGED <<slots, base_next, fds, streams, events>>

\* A thread touches the record id: freed memory is undefined behaviour.
Touch(t, op, id, then) ==
    IF socks[id].mem = "freed"
    THEN /\ halted' = TRUE
         /\ last' = Call(op, id, t, "use_after_free", <<>>)
         /\ UNCHANGED <<socks, objmap, hist, threads, slots, base_next, fds, streams,
                        events>>
    ELSE then

ThreadCreate ==
    /\ ~halted
    /\ objmap.nid <= MaxCreate
    /\ With(tcp_socket_create(W), LAMBDA r :
           /\ socks' = r.w.socks
           /\ objmap' = [map |-> r.w.map, nid |-> r.w.nid]
           /\ last' = Call("create", r.id, 0, r.id, <<>>)
           /\ hist' = HistAfter("create", r.id, r.id)
           /\ UNCHANGED <<slots, base_next, fds, streams, events, halted, threads>>)

\* socket_is_socket starts: objectmap_lookup.
ThreadIsSocket ==
    \E t \in Threads, id \in Handles :
        /\ ~halted
        /\ threads[t].pc = "idle"
        /\ ThreadAt(t, IF objectmap_lookup(W, id) THEN "incr" ELSE "idle", id)
        /\ last' = Call("is_socket", id, t, objectmap_lookup(W, id), <<>>)
        /\ UNCHANGED <<socks, objmap, halted, hist>>

\* atomic_incr32 in _socket_lookup.
ThreadIncr ==
    \E t \in Threads :
        /\ ~halted
        /\ threads[t].pc = "incr"
        /\ Touch(t, "incr", threads[t].id,
                 /\ socks' = [socks EXCEPT ![threads[t].id].ref = @ + 1]
                 /\ ThreadAt(t, "holding", threads[t].id)
                 /\ last' = Call("incr", threads[t].id, t, socks[threads[t].id].ref + 1, <<>>)
                 /\ UNCHANGED <<objmap, halted, hist>>)

\* socket_destroy starts: objectmap_lookup. The call is the one that ends
\* socket_is_socket, or the application's own, which gives up its reference.
ThreadDestroy ==
    \E t \in Threads, id \in Handles :
        /\ ~halted
        /\ \/ threads[t].pc = "holding" /\ threads[t].id = id /\ hist' = hist
           \/ /\ threads[t].pc = "idle"
              /\ hist.life[id] = "fresh"
              /\ hist' = HistAfter("destroy", id, 0)
        /\ ThreadAt(t, IF objectmap_lookup(W, id) THEN "decr" ELSE "idle", id)
        /\ last' = Call("destroy", id, t, objectmap_lookup(W, id), <<>>)
        /\ UNCHANGED <<socks, objmap, halted>>

\* atomic_decr32 in socket_destroy.
ThreadDecr ==
    \E t \in Threads :
        /\ ~halted
        /\ threads[t].pc = "decr"
        /\ Touch(t, "decr", threads[t].id,
                 /\ socks' = [socks EXCEPT ![threads[t].id].ref = @ - 1]
                 /\ ThreadAt(t, IF socks[threads[t].id].ref = 1 THEN "unmap" ELSE "idle",
                             threads[t].id)
                 /\ last' = Call("decr", threads[t].id, t, socks[threads[t].id].ref - 1, <<>>)
                 /\ UNCHANGED <<objmap, halted, hist>>)

\* _socket_deallocate: objectmap_free and _socket_close.
ThreadUnmap ==
    \E t \in Threads :
        /\ ~halted
        /\ threads[t].pc = "unmap"
        /\ objmap' = [objmap EXCEPT !.map = @ \ {threads[t].id}]
        /\ ThreadAt(t, "free", threads[t].id)
        /\ last' = Call("unmap", threads[t].id, t, 0, <<>>)
        /\ UNCHANGED <<socks, halted, hist>>

\* _socket_deallocate: memory_deallocate.
ThreadFree ==
    \E t \in Threads :
        /\ ~halted
        /\ threads[t].pc = "free"
        /\ Touch(t, "free", threads[t].id,
                 /\ socks' = [socks EXCEPT ![threads[t].id] = [Sock0 EXCEPT !.mem = "freed"]]
                 /\ ThreadAt(t, "idle", threads[t].id)
                 /\ last' = Call("free", threads[t].id, t, 0, <<>>)
                 /\ UNCHANGED <<objmap, halted, hist>>)

NextThreads ==
    \/ ThreadCreate \/ ThreadIsSocket \/ ThreadIncr \/ ThreadDestroy \/ ThreadDecr
    \/ ThreadUnmap \/ ThreadFree

SpecThreads == Init /\ [][NextThreads]_vars


----------------------------------------------------------------------------
\* A listener (1) whose flags are set, and a client (2) that connects, closes
\* and connects again, so that accept finds its queue empty or not, and the
\* slot cursor inside the table or past it.

NextAccept ==
    \/ Create \/ SetBlocking({1}) \/ SetReuseAddress({1}) \/ Bind({1}, {ListenAddr})
    \/ Listen({1}) \/ Connect({2}, {ListenAddr}, Waits) \/ Accept({1, 2}, Waits)
    \/ Close({2}) \/ KernelConnectDone

SpecAccept == Init /\ [][NextAccept]_vars

----------------------------------------------------------------------------
\* A socket that is bound in either family, closed and bound again, and whose
\* delay flag is set and read on the way.

NextReopen ==
    \/ Create \/ Bind({1}, {Addr(4, 1), Addr(6, 1)}) \/ Close({1})
    \/ SetDelay({1}) \/ Delay({1})

SpecReopen == Init /\ [][NextReopen]_vars

----------------------------------------------------------------------------
\* The server end (3) writes, flushes and is closed; the client (2) reads what
\* arrives, asks for the end of the stream and is closed itself.

NextHangup ==
    \/ Stream({2, 3}) \/ StreamWrite({3}) \/ StreamFlush({3}) \/ KernelDeliver
    \/ StreamRead({2}) \/ StreamEos({2}) \/ Close({2, 3})

SpecHangup == InitConnected /\ [][NextHangup]_vars

----------------------------------------------------------------------------
\* The server end (3) writes and flushes; the client (2) fills its in-ring,
\* asks how much there is to read, reads, and either end is closed.

NextBuffer ==
    \/ Stream({2, 3}) \/ StreamWrite({3}) \/ StreamFlush({3}) \/ KernelDeliver
    \/ StreamBufferRead({2}) \/ StreamAvailableRead({2}) \/ StreamRead({2})
    \/ Close({2, 3})

SpecBuffer == InitConnected /\ [][NextBuffer]_vars

----------------------------------------------------------------------------
\* Sockets, their stream adapters and the references to both: adapters are
\* made, asked for again and deallocated, references taken and given up.

NextStream ==
    \/ Create \/ Stream(Ids) \/ StreamDeallocate(Ids) \/ Ref(Ids) \/ Destroy(Ids)

SpecStream == Init /\ [][NextStream]_vars

----------------------------------------------------------------------------
\* Threads that call socket_stream. The call is a sequence of steps:
\* _socket_lookup (objectmap_lookup, then atomic_incr32), the test of
\* sock->stream, and either _socket_stream_allocate with the store of
\* sock->stream, or socket_destroy (ThreadDestroy, ThreadDecr); the steps of
\* the threads interleave. Where a thread is: "s_incr" (the lookup found the
\* record), "s_test" (it holds the record, the test is next), "s_alloc" (it
\* found no adapter, the allocation and the store are next).

\* The memory _socket_stream_allocate gets for the adapter of socket id: the
\* adapters are numbered, the first one of a socket by its id.
FreshStream(id) ==
    IF ~streams[id].live THEN id
    ELSE IF \E s \in Ids : ~streams[s].live
         THEN CHOOSE s \in Ids : ~streams[s].live /\ \A u \in Ids : ~streams[u].live => s <= u
         ELSE 0

\* socket_stream starts: objectmap_lookup.
ThreadStream ==
    \E t \in Threads, id \in Handles :
        /\ ~halted
        /\ threads[t].pc = "idle"
        /\ ThreadAt(t, IF objectmap_lookup(W, id) THEN "s_incr" ELSE "idle", id)
        /\ last' = Call("stream", id, t, 0, <<>>)
        /\ UNCHANGED <<socks, objmap, halted, hist>>

\* atomic_incr32 in _socket_lookup.
ThreadStreamIncr ==
    \E t \in Threads :
        /\ ~halted
        /\ threads[t].pc = "s_incr"
        /\ Touch(t, "incr", threads[t].id,
                 /\ socks' = [socks EXCEPT ![threads[t].id].ref = @ + 1]
                 /\ ThreadAt(t, "s_test", threads[t].id)
                 /\ last' = Call("incr", threads[t].id, t, socks[threads[t].id].ref + 1, <<>>)
                 /\ UNCHANGED <<objmap, halted, hist>>)

\* if( !sock->stream ): with an adapter the call returns it after the
\* socket_destroy that comes next.
ThreadStreamTest ==
    \E t \in Threads :
        /\ ~halted
        /\ threads[t].pc = "s_test"
        /\ Touch(t, "stream", threads[t].id,
                 /\ ThreadAt(t, IF socks[threads[t].id].stream = 0 THEN "s_alloc" ELSE "holding",
                             threads[t].id)
                 /\ last' = Call("stream", threads[t].id, t, socks[threads[t].id].stream, <<>>)
                 /\ UNCHANGED <<socks, objmap, halted, hist>>)

\* _socket_stream_allocate and sock->stream = stream: the call returns the new
\* adapter and keeps the reference of its lookup.
ThreadStreamAllocate ==
    \E t \in Threads :
        /\ ~halted
        /\ threads[t].pc = "s_alloc"
        /\ FreshStream(threads[t].id) # 0
        /\ Touch(t, "stream", threads[t].id,
                 /\ streams' = [streams EXCEPT ![FreshStream(threads[t].id)] =
                                    [live |-> TRUE, socket |-> threads[t].id]]
                 /\ socks' = [socks EXCEPT ![threads[t].id].stream =
                                               FreshStream(threads[t].id)]
                 /\ threads' = [threads EXCEPT ![t] = ThreadIdle]
                 /\ last' = Call("stream", threads[t].id, t, FreshStream(threads[t].id), <<>>)
                 /\ UNCHANGED <<slots, base_next, fds, events, objmap, halted, hist>>)

\* Two sockets that were created, and whose creator keeps its references.
InitStreamThreads ==
    /\ Holds(tcp_socket_create(tcp_socket_create(World0).w).w)
    /\ last = Call("create", 2, 0, 2, <<>>)
    /\ hist = [life |-> [i \in Ids |-> "other"], closed |-> [i \in Ids |-> "no"]]

NextStreamThreads ==
    \/ ThreadStream \/ ThreadStreamIncr \/ ThreadStreamTest \/ ThreadStreamAllocate
    \/ ThreadDestroy \/ ThreadDecr

SpecStreamThreads == InitStreamThreads /\ [][NextStreamThreads]_vars

----------------------------------------------------------------------------
\* A connection that ends with an error on the client's side: the client (2)
\* has sent a byte that the server end (3) never reads, so that the close of
\* the server end resets the connection while the client still has bytes of
\* the server end to read.

\* The world after the sockets of Connected got their streams, and the client
\* wrote one byte and flushed.
Unanswered(inh) ==
    With(socket_stream(Connected(inh), 2).w, LAMBDA w1 :
    With(socket_stream(w1, 3).w, LAMBDA w2 :
    With(_socket_write(w2, 2, Tape(2, 0, 1), FALSE).w, LAMBDA w3 :
    _socket_flush(w3, 2, FALSE))))

InitUnanswered ==
    /\ \E inh \in BOOLEAN : Holds(Unanswered(inh))
    /\ last = Call("flush", 2, 0, 0, <<>>)
    /\ hist = [life |-> [i \in Ids |-> "other"], closed |-> [i \in Ids |-> "no"]]

NextDrain ==
    \/ StreamWrite({3}) \/ StreamFlush({3}) \/ KernelDeliver \/ StreamBufferRead({2})
    \/ StreamRead({2}) \/ State({2}) \/ StreamEos({2}) \/ Close({3})

SpecDrain == InitUnanswered /\ [][NextDrain]_vars

----------------------------------------------------------------------------
\* A writer that is faster than its reader: the server end (3) writes more
\* than the kernel takes, the client (2) reads, or closes.
NextSend ==
    \/ Stream({2, 3}) \/ StreamWriteLong({3}) \/ StreamFlush({3}) \/ KernelDeliver
    \/ StreamRead({2}) \/ Close({2})

SpecSend == InitConnected /\ [][NextSend]_vars

----------------------------------------------------------------------------
\* The states of a record from one connection to the next: the client's
\* connection ends with an error while it has a byte to read, ends by a close,
\* and is made again; the listener and the server end are polled and closed.

\* The world after the server end answered the client of Unanswered with one
\* byte, which the client has in its in-ring.
Answered(inh) ==
    With(_socket_write(Unanswered(inh), 3, Tape(3, 0, 1), FALSE).w, LAMBDA w1 :
    With(_socket_flush(w1, 3, FALSE), LAMBDA w2 :
    With(KDeliver(w2, w2.slots[w2.socks[2].base].fd, 1), LAMBDA w3 :
    _socket_buffer_read(w3, 2, 1, FALSE))))

InitAnswered ==
    /\ \E inh \in BOOLEAN : Holds(Answered(inh))
    /\ last = Call("buffer_read", 2, 0, 0, <<>>)
    /\ hist = [life |-> [i \in Ids |-> "other"], closed |-> [i \in Ids |-> "no"]]

NextLife ==
    \/ State(Ids) \/ Close(Ids) \/ StreamRead({2}) \/ Connect({2}, {ListenAddr}, Waits)
    \/ Listen({2}) \/ KernelConnectDone

SpecLife == InitAnswered /\ [][NextLife]_vars
----------------------------------------------------------------------------
\* Properties.

\* The reference count and the mapping of a record.
RefOf(id) == socks[id].ref

Mapped(id) == id \in objmap.map

\* The calls that resolve an id and are not socket_ref, socket_destroy,
\* socket_stream or the stream finalizer.
NeutralOps ==
    {"bind", "connect", "state", "close", "blocking", "set_blocking", "reuse_address",
     "set_reuse_address", "reuse_port", "set_reuse_port", "set_multicast_group",
     "listen", "accept", "delay", "set_delay", "read", "write", "eos",
     "available_read", "buffer_read", "flush", "seek", "tell"}

\* C1: a call of a public operation that resolves an id, other than socket_ref,
\* socket_destroy, socket_stream and the stream finalizer, returns with the
\* record's reference count as it was before the call, on every return path.
C1_RefCountKept ==
    [][(~halted' /\ last'.op \in NeutralOps /\ last'.id \in Ids)
         => socks'[last'.id].ref = socks[last'.id].ref]_vars

\* C2: a socket made by tcp_socket_create, on which socket_set_blocking,
\* socket_blocking, socket_bind, the address getters, socket_state and
\* socket_is_socket were called and nothing else, is a socket with one
\* reference; after one socket_destroy its count is 0, its record is freed, and
\* socket_is_socket is false in every later call.
C2_FreshLifetime ==
    /\ \A id \in Ids :
         /\ hist.life[id] = "fresh"
              => /\ Mapped(id)
                 /\ RefOf(id) = 1
                 /\ socket_is_socket(W, id).res
         /\ hist.life[id] = "freed"
              => /\ ~Mapped(id)
                 /\ RefOf(id) = 0
                 /\ socks[id].mem = "freed"
                 /\ ~socket_is_socket(W, id).res
    /\ (~halted /\ last.op = "is_socket" /\ hist.life[last.id] \in {"fresh", "freed"})
         => last.res = (hist.life[last.id] = "fresh")

\* A socket made by tcp_socket_create was freed by one socket_destroy, and then
\* socket_is_socket said no.
C2_FreedSeen ==
    \E id \in Ids :
        /\ hist.life[id] = "freed"
        /\ ~halted
        /\ last.op = "is_socket"
        /\ last.id = id
        /\ last.res = FALSE

\* What socket_state returns in the world w for a socket whose slot needs no
\* poll.
StateIn(w, id) ==
    IF w.socks[id].base >= 0 THEN w.slots[w.socks[id].base].state ELSE "NOTCONNECTED"

\* The kernel's descriptor of a socket in the world w, SOCKET_INVALID without
\* one.
FdIn(w, id) ==
    IF w.socks[id].base >= 0 THEN w.slots[w.socks[id].base].fd ELSE SOCKET_INVALID

StateOf(id) == StateIn(W, id)

FdOf(id) == FdIn(W, id)

\* C3: under every interleaving of threads that call socket_is_socket and
\* socket_destroy on the same id, no thread touches freed memory or frees a
\* record twice, the reference count is at least 1 while a thread holds a
\* record it looked up, and no thread increments or decrements the count of a
\* record whose deallocation another thread has started.
C3_ThreadSafe ==
    /\ ~halted
    /\ \A t \in Threads :
         threads[t].pc = "holding" => RefOf(threads[t].id) >= 1
    /\ last.op \in {"incr", "decr"}
         => \A u \in Threads \ {last.arg} :
                ~(threads[u].pc \in {"unmap", "free"} /\ threads[u].id = last.id)

\* The fields of a record that a stream read or write transfers bytes through.
Transfer(w, id) ==
    [buffer_in |-> w.socks[id].buffer_in,
     offset_read_in |-> w.socks[id].offset_read_in,
     offset_write_in |-> w.socks[id].offset_write_in,
     buffer_out |-> w.socks[id].buffer_out,
     offset_write_out |-> w.socks[id].offset_write_out,
     bytes_read |-> w.socks[id].bytes_read,
     bytes_written |-> w.socks[id].bytes_written]

\* A step is a stream read or write that returned, on a socket in closed.
IoAfterClose(closed) ==
    /\ ~halted'
    /\ last'.op \in {"read", "write"}
    /\ last'.id \in Ids
    /\ hist.closed[last'.id] \in closed

\* The read or write of the step returned 0 and transferred nothing: the
\* caller's buffer, the record's buffers and counters and the kernel's
\* descriptors are as before.
NothingTransferred ==
    /\ last'.res = 0
    /\ last'.op = "read" => last'.buf = Buf0(last'.arg)
    /\ Transfer(W', last'.id) = Transfer(W, last'.id)
    /\ fds' = fds

\* socket_is_socket on a socket that was closed says true while the socket has
\* references.
ClosedStaysSocket ==
    (~halted' /\ last'.op = "is_socket" /\ last'.id \in Ids
     /\ hist.closed[last'.id] # "no" /\ socks[last'.id].ref >= 1) => last'.res = TRUE

\* C4, as the specification states it: after socket_close(id), socket_is_socket
\* stays true until the reference count drops to 0, and every later stream read
\* and write on the socket returns 0 and transfers nothing.
C4_AsStated ==
    [][/\ ClosedStaysSocket
       /\ IoAfterClose({"closed", "reconnected"}) => NothingTransferred]_vars

\* C4, amended: after socket_close(id), socket_is_socket stays true until the
\* reference count drops to 0, and until a later socket_connect on the socket
\* returns true every stream read and write on it returns 0 and transfers
\* nothing.
C4_UntilReconnected ==
    [][/\ ClosedStaysSocket
       /\ IoAfterClose({"closed"}) => NothingTransferred]_vars

\* A read returned 0 on a closed socket that its peer had written to, and the
\* socket is still a socket.
C4_ReadAfterClose ==
    /\ ~halted
    /\ last.op = "read"
    /\ last.id \in Ids
    /\ hist.closed[last.id] = "closed"
    /\ last.res = 0
    /\ \E peer \in Ids \ {last.id} : socks[peer].bytes_written > 0
    /\ socket_is_socket(W, last.id).res

\* What socket_close leaves of the record tables, the slot table, the cursor
\* and the kernel's descriptors.
Closed(w) ==
    [socks |-> w.socks, slots |-> w.slots, next |-> w.next, map |-> w.map, fds |-> w.fds]

\* C5: in every reachable state and for every id, two consecutive
\* socket_close(id) leave the records, the slot table and the descriptors as
\* one does; the second closes no descriptor and frees no address.
C5_CloseIdempotent ==
    \A id \in Ids :
        Closed(socket_close(socket_close(W, id), id)) = Closed(socket_close(W, id))

\* A connected socket with bytes in its write buffer, whose close closes its
\* descriptor.
C5_CloseActs ==
    \E id \in Ids :
        /\ ~halted
        /\ StateIn(W, id) = "CONNECTED"
        /\ socks[id].offset_write_out > 0
        /\ FdIn(W, id) # SOCKET_INVALID
        /\ ~socket_close(W, id).fds[FdIn(W, id)].open
        /\ Closed(socket_close(socket_close(W, id), id)) # Closed(W)

\* C6: what a read from B's stream returns is the bytes A wrote, in order: the
\* byte at position i of the buffer is the next byte of A's tape after those
\* read before.
C6_RoundTrip ==
    (~halted /\ last.op = "read" /\ last.res > 0)
      => \A i \in 0..(last.res - 1) :
             last.buf[i] = <<2, socks[last.id].bytes_read - last.res + i + 1>>

C8_BlockingTracks ==
    (~halted /\ last.op = "set_blocking" /\ Mapped(last.id))
      => socket_blocking(W, last.id).res = last.arg

\* The addresses a bind on id would be given by the kernel as asked: of the
\* family of the socket's descriptor, to a port that is free.
FreeAddresses(w, id) ==
    {a \in Addresses : /\ a.port # 0
                       /\ a.fam = w.fds[FdIn(w, id)].fam
                       /\ a.port \notin PortsInUse(w, a.fam)}

\* A step is a call of socket_bind that returned on a valid socket.
BindReturned == ~halted' /\ last'.op = "bind" /\ last'.id \in objmap'.map

\* C9, as the specification states it: socket_bind true leaves address_local
\* equal to the address passed, address_remote unchanged and the state
\* NOT_CONNECTED; socket_bind false leaves the local address and the state
\* unchanged, and a later socket_bind with another address can succeed.
C9_BindAsStated ==
    [][BindReturned =>
         IF last'.res
         THEN /\ socks'[last'.id].address_local = last'.arg
              /\ socks'[last'.id].address_remote = socks[last'.id].address_remote
              /\ StateIn(W', last'.id) = "NOTCONNECTED"
         ELSE /\ socks'[last'.id].address_local = socks[last'.id].address_local
              /\ StateIn(W', last'.id) = StateIn(W, last'.id)
              /\ \E a \in Addresses \ {last'.arg} :
                     socket_bind(W', last'.id, a, "skip").res]_vars

\* C9, amended: socket_bind true leaves address_local equal to the address the
\* kernel bound the descriptor to, which is the address passed when its port is
\* not 0 and has a port the kernel chose otherwise; address_remote is
\* unchanged and the state NOT_CONNECTED. socket_bind false leaves the local
\* address and the state unchanged; when the socket then has a descriptor that
\* is not bound, a socket_bind to any free address of the descriptor's family
\* succeeds.
C9_BindAmended ==
    [][BindReturned =>
         IF last'.res
         THEN /\ socks'[last'.id].address_local # NoAddr
              /\ socks'[last'.id].address_local = fds'[FdIn(W', last'.id)].bound
              /\ socks'[last'.id].address_local.fam = last'.arg.fam
              /\ last'.arg.port # 0 => socks'[last'.id].address_local = last'.arg
              /\ last'.arg.port = 0 => socks'[last'.id].address_local.port # 0
              /\ socks'[last'.id].address_remote = socks[last'.id].address_remote
              /\ StateIn(W', last'.id) = "NOTCONNECTED"
         ELSE /\ socks'[last'.id].address_local = socks[last'.id].address_local
              /\ StateIn(W', last'.id) = StateIn(W, last'.id)
              /\ (FdIn(W', last'.id) # SOCKET_INVALID
                  /\ fds'[FdIn(W', last'.id)].bound = NoAddr)
                   => \A a \in FreeAddresses(W', last'.id) :
                          socket_bind(W', last'.id, a, "skip").res]_vars

\* socket_bind to port 0 returned true with a port the kernel chose, while
\* another socket is bound; and this socket's earlier bind had failed.
C9_KernelChosePort ==
    /\ ~halted
    /\ last.op = "bind"
    /\ last.res = TRUE
    /\ last.arg.port = 0
    /\ socks[last.id].address_local.port # 0
    /\ \E other \in Ids \ {last.id} : socks[other].address_local # NoAddr

\* C10: tcp_socket_listen returns true only if before the call the state is
\* NOT_CONNECTED and the socket has a descriptor and a bound local address;
\* then the state is LISTENING; when it returns false the state is unchanged.
C10_Listen ==
    [][(~halted' /\ last'.op = "listen" /\ last'.id \in Ids) =>
         IF last'.res
         THEN /\ StateIn(W, last'.id) = "NOTCONNECTED"
              /\ FdIn(W, last'.id) # SOCKET_INVALID
              /\ socks[last'.id].address_local # NoAddr
              /\ StateIn(W', last'.id) = "LISTENING"
         ELSE StateIn(W', last'.id) = StateIn(W, last'.id)]_vars

\* A second listen on a listening socket returned false, while another socket
\* has a descriptor and no bound address.
C10_SecondListen ==
    /\ ~halted
    /\ last.op = "listen"
    /\ last.res = FALSE
    /\ StateOf(last.id) = "LISTENING"
    /\ \E id \in Ids : /\ FdOf(id) # SOCKET_INVALID
                       /\ socks[id].address_local = NoAddr
                       /\ StateOf(id) = "NOTCONNECTED"

\* The ways a call of tcp_socket_accept can go in the current state: the timeout
\* and whether a connection arrives within it, whether the accepted descriptor
\* inherits the listener's mode, and the outcome of a slot claim past the table.
AcceptOracles == {<<t, inh, ub>> : t \in Waits, inh \in BOOLEAN, ub \in UBNow}

\* tcp_socket_accept(id, ...) in the current state, as o has it go.
AcceptNow(id, o) == tcp_socket_accept(W, id, o[1][1], o[1][2], o[2], o[3])

\* The calls of tcp_socket_accept that return: [id, o, r], r = [w, res].
AcceptReturns ==
    IF halted \/ objmap.nid > MaxIds THEN {}
    ELSE {c \in {[id |-> id, o |-> o, r |-> AcceptNow(id, o)] :
                     id \in Handles, o \in AcceptOracles} :
              ~c.r.w.halted /\ ~c.r.w.blocked}

\* C11: when tcp_socket_accept returns a non-zero id, the id is none that was
\* live before, the new record has a slot of its own that holds an open
\* descriptor no other slot holds, in state CONNECTED, its address_remote is
\* the address of the peer's descriptor, its address_local is not null, and the
\* listener is still LISTENING on the descriptor it had.
C11_Accepted ==
    \A c \in AcceptReturns :
        c.r.res # 0 =>
            LET w == c.r.w
                new == c.r.res
                b == w.socks[new].base
                fd == w.slots[b].fd
            IN /\ new # c.id
               /\ new \notin objmap.map
               /\ new \in w.map
               /\ b \in Bases
               /\ w.slots[b].object = new
               /\ \A other \in Ids \ {new} : w.socks[other].base # b
               /\ FdOpen(w, fd)
               /\ ~FdOpen(W, fd)
               /\ \A ob \in Bases \ {b} : w.slots[ob].fd # fd
               /\ w.slots[b].state = "CONNECTED"
               /\ w.fds[fd].peer \in Fds
               /\ w.socks[new].address_remote = w.fds[w.fds[fd].peer].bound
               /\ w.socks[new].address_remote # NoAddr
               /\ w.socks[new].address_local # NoAddr
               /\ StateIn(W, c.id) = "LISTENING"
               /\ StateIn(w, c.id) = "LISTENING"
               /\ FdIn(w, c.id) = FdIn(W, c.id)
               /\ w.fds[FdIn(w, c.id)].listening

\* tcp_socket_accept returned the id of a new socket whose peer connected from a
\* port the kernel chose.
C11_AcceptedOne ==
    /\ ~halted
    /\ last.op = "accept"
    /\ last.res # 0
    /\ Mapped(last.res)
    /\ StateOf(last.res) = "CONNECTED"
    /\ socks[last.res].address_remote.port = EphemeralPort
    /\ StateOf(last.id) = "LISTENING"

\* C12: when tcp_socket_accept returns 0, the ids that are live are the ones
\* that were live before, and the socket it was called on has the state and the
\* descriptor it had.
C12_NothingAccepted ==
    \A c \in AcceptReturns :
        c.r.res = 0 =>
            /\ c.r.w.map = objmap.map
            /\ \A id \in objmap.map :
                   /\ StateIn(c.r.w, id) = StateIn(W, id)
                   /\ FdIn(c.r.w, id) = FdIn(W, id)

\* tcp_socket_accept returned 0 on a LISTENING socket after it had accepted a
\* descriptor: the record it allocated for it is gone again.
C12_RecordFreedAgain ==
    /\ ~halted
    /\ last.op = "accept"
    /\ last.res = 0
    /\ StateOf(last.id) = "LISTENING"
    /\ objmap.nid > MaxIds
    /\ MaxIds \notin objmap.map

\* The flags of the slot of socket id in world w.
FlagsIn(w, id) == IF w.socks[id].base \in Bases THEN w.slots[w.socks[id].base].flags ELSE {}

\* C13: a call of tcp_socket_accept on a LISTENING socket that returns leaves
\* every flag of the listener other than CONNECTION_PENDING as it was, and
\* leaves CONNECTION_PENDING cleared.
C13_FlagsKept ==
    \A c \in AcceptReturns :
        StateIn(W, c.id) = "LISTENING" =>
            /\ FlagsIn(c.r.w, c.id) \ {"CONNECTION_PENDING"}
                   = FlagsIn(W, c.id) \ {"CONNECTION_PENDING"}
            /\ "CONNECTION_PENDING" \notin FlagsIn(c.r.w, c.id)

\* C14: tcp_socket_accept(id, 0) on a LISTENING socket with no connection
\* pending returns 0 without waiting, whatever the listener's blocking mode.
C14_NoWait ==
    ~halted /\ objmap.nid <= MaxIds =>
        \A id \in Handles, inh \in BOOLEAN, ub \in UBNow :
            (/\ StateIn(W, id) = "LISTENING"
             /\ FdOpen(W, FdIn(W, id))
             /\ W.fds[FdIn(W, id)].backlog = <<>>)
            => With(tcp_socket_accept(W, id, 0, FALSE, inh, ub), LAMBDA r :
                    ~r.w.blocked /\ r.res = 0)

\* The kernel's view of the connection of socket id's descriptor in world w.
ConnIn(w, id) == IF FdOpen(w, FdIn(w, id)) THEN w.fds[FdIn(w, id)].conn ELSE "none"

\* C15: socket_connect returns false on a socket that is not NOT_CONNECTED. On
\* one that is, with no connection of its descriptor under way, it returns
\* true exactly when the connection is established during the call (state
\* CONNECTED) or is in progress and the timeout is 0 (state CONNECTING); with a
\* timeout it returns true only with state CONNECTED; when it returns false the
\* state is NOT_CONNECTED. A poll of a CONNECTING socket whose descriptor is
\* writable, with no exception, says CONNECTED.
C15_Connect ==
    ~halted =>
        /\ \A id \in Handles, addr \in Addresses, t \in Waits,
              imm \in BOOLEAN, ub \in UBNow :
               With(socket_connect(W, id, addr, t[1], imm, t[2], ub), LAMBDA r :
                   ~r.w.halted =>
                       /\ StateIn(W, id) # "NOTCONNECTED" => ~r.res
                       /\ (r.res /\ t[1] > 0) => StateIn(r.w, id) = "CONNECTED"
                       /\ (StateIn(W, id) = "NOTCONNECTED" /\ ConnIn(W, id) = "none") =>
                              /\ r.res <=>
                                     \/ ConnIn(r.w, id) = "established"
                                     \/ ConnIn(r.w, id) = "progress" /\ t[1] = 0
                              /\ StateIn(r.w, id) =
                                     CASE ~r.res -> "NOTCONNECTED"
                                       [] ConnIn(r.w, id) = "established" -> "CONNECTED"
                                       [] OTHER -> "CONNECTING")
        /\ \A id \in Handles \cap objmap.map, exc \in BOOLEAN :
               StateIn(W, id) = "CONNECTING" =>
                   With(socket_state(W, id, exc), LAMBDA s :
                       IF KException(W, FdIn(W, id), exc) THEN s.res # "CONNECTED"
                       ELSE IF KWritable(W, FdIn(W, id), exc) THEN s.res = "CONNECTED"
                       ELSE s.res = "CONNECTING")

\* socket_connect returned true with the connection in progress, and the kernel
\* has completed it since: the socket is CONNECTING, its descriptor writable.
C15_InProgressDone ==
    /\ ~halted
    /\ last.op = "connect_done"
    /\ \E id \in Handles \cap objmap.map :
           /\ StateOf(id) = "CONNECTING"
           /\ ConnIn(W, id) = "established"
           /\ socks[id].address_remote = ListenAddr

\* C16: when socket_connect returns false, the socket's state, address_local
\* and address_remote are what they were; when it returns true, address_remote
\* is the address passed and address_local is not null.
C16_ConnectAddresses ==
    ~halted =>
        \A id \in Handles, addr \in Addresses, t \in Waits,
           imm \in BOOLEAN, ub \in UBNow :
            With(socket_connect(W, id, addr, t[1], imm, t[2], ub), LAMBDA r :
                ~r.w.halted =>
                    IF r.res
                    THEN /\ r.w.socks[id].address_remote = addr
                         /\ r.w.socks[id].address_local # NoAddr
                    ELSE /\ StateIn(r.w, id) = StateIn(W, id)
                         /\ r.w.socks[id].address_local = socks[id].address_local
                         /\ r.w.socks[id].address_remote = socks[id].address_remote)

\* socket_connect returned false on a socket that is connected to the listener
\* already.
C16_SecondConnect ==
    /\ ~halted
    /\ last.op = "connect"
    /\ last.res = FALSE
    /\ Mapped(last.id)
    /\ StateOf(last.id) = "CONNECTED"
    /\ socks[last.id].address_remote = ListenAddr
    /\ socks[last.id].address_local # NoAddr

\* C17: once a descriptor was created for a socket its family stays what it
\* is, through every call; a socket_bind or socket_connect with an address of
\* another family returns false.
C17_FamilyFixed ==
    [][\A id \in Ids :
           (Mapped(id) /\ socks[id].family \in Families /\ ~halted') =>
               /\ socks'[id].family = socks[id].family
               /\ (last'.op \in {"bind", "connect"} /\ last'.id = id
                   /\ last'.arg.fam # socks[id].family) => last'.res = FALSE]_vars

\* C18: tcp_socket_delay, called right after tcp_socket_set_delay on the same
\* socket, returns the value that was set.
C18_DelayAsSet ==
    [][(/\ last.op = "set_delay"
        /\ last'.op = "delay"
        /\ last'.id = last.id
        /\ Mapped(last.id)
        /\ ~halted /\ ~halted') => last'.res = last.arg]_vars

\* The call that led to world w returned.
Returned(w) == ~w.halted /\ ~w.blocked

\* A call on socket id that led to world w posted no event, or it closed the
\* socket and posted one HANGUP event with the socket's id.
HangupRule(id, w) ==
    \/ w.events = events
    \/ /\ w.events = Append(events, <<"HANGUP", id>>)
       /\ socks[id].base >= 0
       /\ w.socks[id].base < 0
       /\ StateIn(w, id) = "NOTCONNECTED"
       /\ ~FdOpen(w, FdIn(W, id))

\* recv() on the descriptor of the connected socket id returns 0 (the end of
\* the stream) or fails with an error that ends the connection.
PeerGone(id, kd) ==
    /\ StateOf(id) = "CONNECTED"
    /\ FdOpen(W, FdOf(id))
    /\ With(KRecv(W, FdOf(id), 1, kd), LAMBDA k :
            /\ ~k.w.blocked
            /\ k.res = 0 \/ (k.res < 0 /\ Teardown(k.err)))

\* The stream read of socket id calls read_fn when it is short of bytes.
Refills(id) ==
    \/ "BLOCKING" \in FlagsIn(W, id)
    \/ "POLLED" \notin FlagsIn(W, id)

\* C19: a stream read that returns, and that asked for more than the in-ring
\* held when recv() found the peer gone, returns the bytes the in-ring held,
\* leaves the socket closed and has posted exactly one HANGUP event with the
\* socket's id. Every stream read, write and flush that returns posts no
\* event, or closes the socket and posts one HANGUP for it; on a socket
\* without a slot (closed and not connected again) none posts any event.
C19_Hangup ==
    ~halted =>
        \A s \in LiveStreams :
            LET id == streams[s].socket
            IN (id \in Ids /\ Mapped(id)) =>
                /\ \A size \in 1..MaxRead, kd \in 1..KBuf, garb \in BOOLEAN, exc \in BOOLEAN :
                       With(_socket_read(W, s, size, TRUE, kd, garb, exc), LAMBDA r :
                           Returned(r.w) =>
                               /\ HangupRule(id, r.w)
                               /\ (/\ PeerGone(id, kd)
                                   /\ Refills(id)
                                   /\ _socket_buffered_in(socks[id]) < size) =>
                                      /\ r.res = _socket_buffered_in(socks[id])
                                      /\ r.w.events = Append(events, <<"HANGUP", id>>))
                /\ \A n \in 1..MaxWrite, exc \in BOOLEAN :
                       With(_socket_write(W, s, Tape(id, socks[id].bytes_written, n), exc),
                            LAMBDA r : Returned(r.w) => HangupRule(id, r.w))
                /\ \A exc \in BOOLEAN :
                       With(_socket_flush(W, s, exc),
                            LAMBDA w : Returned(w) => HangupRule(id, w))

\* A stream read of the client returned 0 after its peer was closed: the
\* client is closed and the one event is the HANGUP with its id.
C19_HangupPosted ==
    /\ ~halted
    /\ last.op = "read"
    /\ last.res = 0
    /\ Mapped(last.id)
    /\ socks[last.id].base < 0
    /\ events = << <<"HANGUP", last.id>> >>

\* What eos() is said to be for socket id when the poll goes as exc has it: the
\* polled state is not CONNECTED or the descriptor is invalid, and nothing is
\* left to read; kernel says whether the bytes the kernel holds count as well.
EosSaid(id, exc, kernel) ==
    With(socket_state(W, id, exc), LAMBDA p :
        /\ p.res # "CONNECTED" \/ FdIn(p.w, id) = SOCKET_INVALID
        /\ _socket_buffered_in(socks[id]) = 0
        /\ kernel => _socket_available_fd(p.w, FdIn(p.w, id)) <= 0)

\* The eos() calls that return on streams of live sockets: [id, exc, r].
EosReturns ==
    IF halted THEN {}
    ELSE {c \in {[id |-> streams[s].socket, exc |-> exc, r |-> _socket_eos(W, s, exc)] :
                     s \in LiveStreams, exc \in BOOLEAN} :
              c.id \in Ids /\ Mapped(c.id) /\ Returned(c.r.w)}

\* C20 as stated: eos() is true exactly when the polled state is not CONNECTED
\* or the descriptor is invalid, and the in-ring holds no unread bytes.
C20_EosAsStated ==
    \A c \in EosReturns : c.r.res <=> EosSaid(c.id, c.exc, FALSE)

\* C20, amended: eos() is true on a socket without a slot, whatever its in-ring
\* holds; on a socket with a slot it is true exactly when the polled state is
\* not CONNECTED or the descriptor is invalid, the in-ring holds no unread
\* bytes and the kernel reports none available.
C20_EosAmended ==
    \A c \in EosReturns :
        c.r.res <=> (socks[c.id].base < 0 \/ EosSaid(c.id, c.exc, TRUE))

\* eos() said true on a closed socket whose in-ring holds unread bytes.
C20_EosOnClosed ==
    /\ ~halted
    /\ last.op = "eos"
    /\ last.res = TRUE
    /\ Mapped(last.id)
    /\ socks[last.id].base < 0
    /\ _socket_buffered_in(socks[last.id]) > 0


\* The bytes the in-ring of socket id holds in world w, from its two offsets.
RingCount(w, id) == (w.socks[id].offset_write_in - w.socks[id].offset_read_in + RB) % RB

\* The count the kernel reports for the descriptor of socket id, when positive.
KernelCount(w, id) ==
    IF _socket_available_fd(w, FdIn(w, id)) > 0 THEN _socket_available_fd(w, FdIn(w, id)) ELSE 0

\* The peer of the connected socket id has not closed, reset or ended the
\* connection.
PeerOpenIn(w, id) ==
    /\ FdOpen(w, FdIn(w, id))
    /\ w.fds[FdIn(w, id)].peer # 0
    /\ ~w.fds[FdIn(w, id)].fin
    /\ ~w.fds[FdIn(w, id)].reset

\* What available_read() returns on the stream s in world w.
AvailableIn(w, s) == _socket_available_read(w, s).res

\* The streams of live sockets.
SocketStreams == {s \in LiveStreams : streams[s].socket \in Ids /\ Mapped(streams[s].socket)}

\* available_read() is the ring's count plus the kernel's, and buffer_read
\* leaves it as it is, on the streams whose socket has a slot (slotted) or on
\* all streams.
AvailableIsSum(slotted) ==
    ~halted =>
        \A s \in SocketStreams :
            LET id == streams[s].socket
            IN /\ (slotted /\ socks[id].base < 0) => AvailableIn(W, s) = 0
               /\ (~slotted \/ socks[id].base >= 0) =>
                      /\ AvailableIn(W, s) = RingCount(W, id) + KernelCount(W, id)
                      /\ \A kd \in 1..KBuf, exc \in BOOLEAN :
                             With(_socket_buffer_read(W, s, kd, exc), LAMBDA w :
                                 Returned(w) => AvailableIn(w, s) = AvailableIn(W, s))

\* A step that is no stream read or seek, and after which the peer has not
\* closed, does not lower available_read(); slotted: and after which the
\* socket has its slot.
AvailableGrows(slotted) ==
    (~halted /\ ~halted' /\ last'.op \notin {"read", "seek"}) =>
        \A s \in SocketStreams :
            LET id == streams[s].socket
            IN (/\ streams'[s].live
                /\ id \in objmap'.map
                /\ PeerOpenIn(W', id)
                /\ slotted => socks'[id].base >= 0) =>
                   AvailableIn(W', s) >= AvailableIn(W, s)

\* C21 as stated: available_read() equals the bytes buffered in the in-ring
\* plus the kernel's available count when positive; between two stream reads,
\* while the peer has not closed, it never decreases, and a buffer_read call
\* does not change it.
C21_AvailableAsStated ==
    [](AvailableIsSum(FALSE)) /\ [][AvailableGrows(FALSE)]_vars

\* C21, amended: on a socket that has a slot available_read() equals the bytes
\* buffered in the in-ring plus the kernel's available count when positive,
\* and on a socket without a slot it is 0, whatever the in-ring holds; between
\* two stream reads, while the peer has not closed and the socket keeps its
\* slot, it never decreases, and a buffer_read call does not change it.
C21_AvailableAmended ==
    [](AvailableIsSum(TRUE)) /\ [][AvailableGrows(TRUE)]_vars

\* buffer_read moved bytes from the kernel into the in-ring of the client and
\* left some with the kernel: available_read() counts both.
C21_BufferReadMoved ==
    /\ ~halted
    /\ last.op = "buffer_read"
    /\ Mapped(last.id)
    /\ RingCount(W, last.id) > 0
    /\ KernelCount(W, last.id) > 0

\* The stream reads of n bytes on stream s, one for each answer of the kernel
\* and each outcome of the comparison of read_fn's result, that do not wait
\* for the peer in this state: [s, n, r].
ReadsNow ==
    IF halted THEN {}
    ELSE {c \in {[s |-> s, n |-> n, r |-> _socket_read(W, s, n, TRUE, kd, garb, exc)] :
                     s \in SocketStreams, n \in 1..MaxRead,
                     kd \in 1..KBuf, garb \in BOOLEAN, exc \in BOOLEAN} :
              ~c.r.w.blocked}

\* A stream read that returned r.res for n bytes on socket id did as the
\* contract has it.
ReadContract(id, n, r) ==
    /\ 0 <= r.res /\ r.res <= n
    /\ StateOf(id) \notin {"CONNECTED", "DISCONNECTED"} => r.res = 0
    /\ StateOf(id) \in {"CONNECTED", "DISCONNECTED"} => r.res >= Min(n, RingCount(W, id))
    /\ r.w.socks[id].bytes_read = socks[id].bytes_read + r.res
    /\ _socket_tell(r.w, id).res = _socket_tell(W, id).res + r.res

\* C22: a stream read(buf, n) terminates and returns r with 0 <= r <= n; r is
\* 0 when the state is neither CONNECTED nor DISCONNECTED and at least min(n,
\* bytes buffered in the in-ring) when it is; bytes_read, and so tell(), grows
\* by exactly r.
C22_ReadTerminates ==
    \A c \in ReadsNow :
        /\ ~c.r.w.halted
        /\ ReadContract(streams[c.s].socket, c.n, c.r)

\* Between the worlds w and W nothing was sent, and the out-buffer of socket
\* id, its offset_write_out and its bytes_written are the same.
OutputKept(w, id) ==
    /\ Returned(w)
    /\ w.fds = fds
    /\ w.socks[id].buffer_out = socks[id].buffer_out
    /\ w.socks[id].offset_write_out = socks[id].offset_write_out
    /\ w.socks[id].bytes_written = socks[id].bytes_written

\* C23: a stream write on a socket whose state is not CONNECTED returns 0, and
\* neither that write nor a flush on such a socket, nor a flush with an empty
\* out-buffer, sends anything or changes the out-buffer, offset_write_out or
\* bytes_written.
C23_OutputKept ==
    ~halted =>
        \A s \in SocketStreams, exc \in BOOLEAN :
            LET id == streams[s].socket
            IN /\ StateOf(id) # "CONNECTED" =>
                      /\ \A n \in 1..MaxWrite :
                             With(_socket_write(W, s, Tape(id, socks[id].bytes_written, n), exc),
                                  LAMBDA r : r.res = 0 /\ OutputKept(r.w, id))
                      /\ OutputKept(_socket_flush(W, s, exc), id)
               /\ socks[id].offset_write_out = 0 => OutputKept(_socket_flush(W, s, exc), id)

\* A stream write returned 0 on a socket that is not connected and has bytes
\* in its out-buffer.
C23_WriteRefused ==
    /\ ~halted
    /\ last.op = "write"
    /\ last.res = 0
    /\ Mapped(last.id)
    /\ StateOf(last.id) # "CONNECTED"
    /\ socks[last.id].offset_write_out > 0

\* The record id is destroyed in world w.
Destroyed(w, id) == id \notin w.map /\ w.socks[id].mem = "freed"

\* The record id, with the one reference of its creator and no adapter, lives
\* through socket_stream and two of the steps finalize and socket_free in
\* either order, and is destroyed by the last.
LastStepDestroys(id) ==
    With(socket_stream(W, id), LAMBDA a :
        /\ a.res # 0
        /\ ~Destroyed(a.w, id)
        /\ ~Destroyed(stream_deallocate(a.w, a.res), id)
        /\ Destroyed(socket_destroy(stream_deallocate(a.w, a.res), id), id)
        /\ ~Destroyed(socket_destroy(a.w, id), id)
        /\ Destroyed(stream_deallocate(socket_destroy(a.w, id), a.res), id))

AdaptersOf(id) == {s \in Ids : streams[s].live /\ streams[s].socket = id}

\* C25: when threads call socket_stream(id) concurrently on a socket that has
\* no adapter yet, then under every interleaving, once the calls have
\* returned, only one adapter was allocated for the socket, the record
\* references it, and the reference count is exactly 1 higher than the 1 it
\* was before the calls.
C25_StreamRace ==
    (~halted /\ \A t \in Threads : threads[t].pc = "idle") =>
        \A id \in Handles :
            AdaptersOf(id) # {} =>
                /\ AdaptersOf(id) = {socks[id].stream}
                /\ socks[id].ref = 2

\* The slots of the table that no record has claimed.
FreeSlots(w) == {b \in Bases : w.slots[b].object = 0}

\* C26: claiming a slot (_socket_allocate_base) terminates and returns a slot
\* whenever at least one slot of the table is free, also after slots were
\* claimed and released by close any number of times: the record then has a
\* base in the table and the slot there names the record.
C26_SlotClaimed ==
    ~halted =>
        \A id \in Handles, ub \in UBNow :
            (Mapped(id) /\ socks[id].base < 0 /\ FreeSlots(W) # {}) =>
                With(_socket_allocate_base(W, id, ub), LAMBDA w :
                    /\ ~w.halted
                    /\ w.socks[id].base \in Bases
                    /\ w.slots[w.socks[id].base].object = id)

\* C27: in every reachable state each record's base is either -1 or an index
\* in [0, max_sockets) whose slot's object field equals the record's id; no
\* two live records have the same base; and every slot with a non-zero object
\* names a live record.
C27_SlotsConsistent ==
    ~halted =>
        /\ \A id \in Ids :
               Mapped(id) =>
                   \/ socks[id].base = -1
                   \/ /\ socks[id].base \in Bases
                      /\ slots[socks[id].base].object = id
        /\ \A id \in Ids, other \in Ids :
               (Mapped(id) /\ Mapped(other) /\ id # other /\ socks[id].base # -1) =>
                   socks[id].base # socks[other].base
        /\ \A b \in Bases : slots[b].object # 0 => Mapped(slots[b].object)

\* The bytes the kernel holds for the descriptor fd, received or on their way.
KernelHolds(w, fd) == Len(w.fds[fd].rx) + Len(w.fds[fd].net)

\* In world w, reached from W by a call that read r bytes from the stream of
\* socket id, the ring's offsets are inside the ring, and the ring has gained
\* what the kernel gave and lost the r bytes: neither offset passed the other.
RingKept(w, id, r) ==
    /\ w.socks[id].offset_read_in \in 0..(RB - 1)
    /\ w.socks[id].offset_write_in \in 0..(RB - 1)
    /\ RingCount(w, id) <= RB - 1
    /\ FdOpen(w, FdOf(id)) =>
           /\ r <= RingCount(W, id) + KernelHolds(W, FdOf(id)) - KernelHolds(w, FdOf(id))
           /\ RingCount(w, id) =
                  RingCount(W, id) + KernelHolds(W, FdOf(id)) - KernelHolds(w, FdOf(id)) - r

Unread(w, id) ==
    [i \in 1..RingCount(w, id) |->
         w.socks[id].buffer_in[(w.socks[id].offset_read_in + i - 1) % RB]]
    \o (IF FdOpen(w, FdIn(w, id))
        THEN w.fds[FdIn(w, id)].rx \o w.fds[FdIn(w, id)].net
        ELSE <<>>)

\* C29: a stream read that returns r bytes places them in buf[0..r) in the
\* order they were received, each byte once, also when the r bytes are
\* gathered in more than one copy step within the call (across the wrap of the
\* in-ring, or with a refill from the kernel in the middle of the call).
C29_ReadInOrder ==
    \A c \in ReadsNow :
        ~c.r.w.halted =>
            \A i \in 0..(c.r.res - 1) :
                c.r.buf[i] = Unread(W, streams[c.s].socket)[i + 1]

\* The sockets in state CONNECTING on whose descriptor the readiness probe
\* reports an exception.
ConnectFailed ==
    {id \in Ids : Mapped(id) /\ StateOf(id) = "CONNECTING" /\ KException(W, FdOf(id), TRUE)}

\* The poll of socket id (through socket_state, the probe reporting the
\* exception) closed the socket: the record has no slot, its slot is released
\* and its descriptor closed.
PollClosed(id) ==
    With(socket_state(W, id, TRUE), LAMBDA p :
        /\ Returned(p.w)
        /\ p.w.socks[id].base < 0
        /\ p.w.slots[socks[id].base].object = 0
        /\ ~FdOpen(p.w, FdOf(id)))

\* C30 as stated: when the state poller runs on a socket in state CONNECTING
\* and the readiness probe reports an exception on its descriptor, the socket
\* is closed and the poll (and so socket_state) returns DISCONNECTED.
C30_ExceptionAsStated ==
    ~halted =>
        \A id \in ConnectFailed :
            PollClosed(id) /\ socket_state(W, id, TRUE).res = "DISCONNECTED"

\* C30, amended: when the state poller runs on a socket in state CONNECTING
\* and the readiness probe reports an exception on its descriptor, the socket
\* is closed and the poll (and so socket_state) returns NOT_CONNECTED, the
\* state the close leaves in the slot.
C30_ExceptionAmended ==
    ~halted =>
        \A id \in ConnectFailed :
            PollClosed(id) /\ socket_state(W, id, TRUE).res = "NOTCONNECTED"

\* A connect of the client is in progress and has failed, the probe reports
\* the exception, and socket_state closes the client and says NOT_CONNECTED.
C30_FailedConnectPolled ==
    /\ ~halted
    /\ last.op = "connect_done"
    /\ \E id \in ConnectFailed :
           /\ PollClosed(id)
           /\ socket_state(W, id, TRUE).res = "NOTCONNECTED"

\* The bytes in the in-ring of socket id, from the read offset on.
RingBytes(w, id) ==
    [i \in 1..RingCount(w, id) |->
         w.socks[id].buffer_in[(w.socks[id].offset_read_in + i - 1) % RB]]

\* The state poller finds a socket error on the CONNECTED socket id.
PollFindsError(id) ==
    /\ Mapped(id)
    /\ StateOf(id) = "CONNECTED"
    /\ _socket_available_fd(W, FdOf(id)) < 0

\* What the poll of socket id does when it finds the error: with unread bytes
\* in the in-ring the state is DISCONNECTED and slot, descriptor and ring are
\* kept; with none the socket is closed.
ErrorPolled(id) ==
    With(socket_state(W, id, FALSE), LAMBDA p :
        /\ Returned(p.w)
        /\ RingCount(W, id) > 0 =>
               /\ p.res = "DISCONNECTED"
               /\ p.w.socks[id].base = socks[id].base
               /\ p.w.slots[socks[id].base].object = id
               /\ FdOpen(p.w, FdOf(id))
               /\ RingBytes(p.w, id) = RingBytes(W, id)
        /\ RingCount(W, id) = 0 =>
               /\ p.w.socks[id].base < 0
               /\ p.w.slots[socks[id].base].object = 0
               /\ ~FdOpen(p.w, FdOf(id)))

\* C31: when the state poller finds a socket error on a CONNECTED socket whose
\* in-ring still holds unread bytes, the state becomes DISCONNECTED and the
\* socket is not closed, and later stream reads return exactly those buffered
\* bytes in order (a read of n bytes returns the next min(n, buffered) of
\* them); when the in-ring is empty at that moment the socket is closed within
\* the same poll.
C31_DrainAfterError ==
    ~halted =>
        /\ \A id \in Ids : PollFindsError(id) => ErrorPolled(id)
        /\ \A c \in ReadsNow :
               LET id == streams[c.s].socket
               IN (StateOf(id) = "DISCONNECTED" /\ RingCount(W, id) > 0) =>
                      /\ ~c.r.w.halted
                      /\ c.r.res = Min(c.n, RingCount(W, id))
                      /\ \A i \in 0..(c.r.res - 1) : c.r.buf[i] = RingBytes(W, id)[i + 1]

\* A socket whose slot is in state DISCONNECTED and whose in-ring has been
\* emptied.
Drained(id) ==
    /\ Mapped(id)
    /\ StateOf(id) = "DISCONNECTED"
    /\ RingCount(W, id) = 0

\* The world w no longer has socket id in the slot it has now.
SlotReleased(w, id) ==
    /\ w.socks[id].base < 0
    /\ w.slots[socks[id].base].object = 0

\* C32: a socket left in state DISCONNECTED is closed by the state poller once
\* its buffered input is drained: with the in-ring emptied, the next poll of the
\* socket, by socket_state or by eos(), closes it and releases its slot.
C32_DrainedIsClosed ==
    ~halted =>
        /\ \A id \in Ids : \A exc \in BOOLEAN :
               Drained(id) => SlotReleased(socket_state(W, id, exc).w, id)
        /\ \A c \in EosReturns : Drained(c.id) => SlotReleased(c.r.w, c.id)

\* The sockets a buffered read asks the kernel for: those with a slot and room
\* in the write region of the in-ring.
BufferReaders == {id \in Ids : Mapped(id) /\ socks[id].base >= 0 /\ MaxReadIn(socks[id]) > 0}

\* The wanted sizes _socket_read passes to the buffered read.
Wanted == 1..RB

\* The bytes a buffered read that led to the world w stored in the in-ring of
\* socket id.
Stored(w, id) == RingCount(w, id) - RingCount(W, id)

\* The size a buffered read of socket id with wanted size n gives to recv().
Request(id, n) == TryRead(socks[id], n, AvailableUnsigned(W, FdOf(id)))

\* The worlds a buffered read of socket id with wanted size n leads to.
BufferReadsOf(id, n) ==
    {_tcp_socket_buffer_read(W, id, n, kd, exc) : kd \in 0..KBuf, exc \in BOOLEAN}

\* C33 as stated: a buffered read with wanted size n > 0 asks the kernel for at
\* most the smallest of the free write region, n, and the available count when
\* that is positive, and stores at most n bytes in the in-ring.
C33_RequestAsStated ==
    ~halted =>
        \A id \in BufferReaders : \A n \in Wanted :
            /\ Request(id, n) <= Min(MaxReadIn(socks[id]), n)
            /\ _socket_available_fd(W, FdOf(id)) > 0 =>
                   Request(id, n) <= _socket_available_fd(W, FdOf(id))
            /\ \A w \in BufferReadsOf(id, n) : Stored(w, id) <= n

\* C33: a buffered read with wanted size n > 0 asks the kernel for at most the
\* free write region of the in-ring, for at least the smaller of that region and
\* n, and for more than n only when the available count (unsigned, so a failed
\* query is the largest count) is more than n, and then for at most that count;
\* it stores at most as many bytes as the in-ring has free.
C33_RequestAmended ==
    ~halted =>
        \A id \in BufferReaders : \A n \in Wanted :
            /\ Request(id, n) <= MaxReadIn(socks[id])
            /\ Request(id, n) >= Min(MaxReadIn(socks[id]), n)
            /\ Request(id, n) > n => Request(id, n) <= AvailableUnsigned(W, FdOf(id))
            /\ \A w \in BufferReadsOf(id, n) :
                   Stored(w, id) >= 0 /\ Stored(w, id) <= (RB - 1) - RingCount(W, id)

\* A buffered read with wanted size 1 stores two bytes in the empty in-ring of a
\* connected socket for which the kernel holds more than one byte.
C33_StoredMoreThanWanted ==
    /\ ~halted
    /\ \E id \in BufferReaders :
           /\ StateOf(id) = "CONNECTED"
           /\ RingCount(W, id) = 0
           /\ _socket_available_fd(W, FdOf(id)) > 1
           /\ Request(id, 1) = 2
           /\ \E w \in BufferReadsOf(id, 1) : Stored(w, id) = 2

\* The bytes in the out-buffer of socket id, in order.
OutBytes(w, id) ==
    [i \in 1..w.socks[id].offset_write_out |-> w.socks[id].buffer_out[i - 1]]

\* The bytes on their way to the descriptor fd or received by it.
Taken(w, fd) == w.fds[fd].rx \o w.fds[fd].net

\* The connected sockets with a stream and a peer, the connection as the
\* kernel set it up.
Senders ==
    {id \in Ids : /\ Mapped(id)
                  /\ StateOf(id) = "CONNECTED"
                  /\ FdOpen(W, FdOf(id))
                  /\ fds[FdOf(id)].peer # 0
                  /\ \E s \in SocketStreams : streams[s].socket = id}

\* What send() took between the worlds W and w from socket id.
SentBy(w, id) == Len(Taken(w, fds[FdOf(id)].peer)) - Len(Taken(W, fds[FdOf(id)].peer))

\* In world w, reached from W by a buffered write of socket id, the out-buffer
\* holds the bytes it held without the first k, which send() took in order.
TailKept(w, id, k) ==
    /\ k \in 0..socks[id].offset_write_out
    /\ w.socks[id].offset_write_out = socks[id].offset_write_out - k
    /\ OutBytes(w, id) = SubSeq(OutBytes(W, id), k + 1, socks[id].offset_write_out)
    /\ Taken(w, fds[FdOf(id)].peer) =
           Taken(W, fds[FdOf(id)].peer) \o SubSeq(OutBytes(W, id), 1, k)

\* The socket at the other end of the connection of sender id.
PeerOf(id) == CHOOSE p \in Ids : Mapped(p) /\ FdOf(p) = fds[FdOf(id)].peer

\* C34: after any sequence of stream writes and flushes offset_write_out is in
\* 0..WB; a flush that sends k of the buffered bytes leaves the unsent tail at
\* the start of the out-buffer in its order and offset_write_out reduced by k;
\* and while the connection stands, the bytes the peer has not read, followed
\* by the out-buffer, are the bytes accepted and not yet read by the peer, each
\* once and in the order written.
C34_SentOnceInOrder ==
    ~halted =>
        /\ \A id \in Ids : socks[id].offset_write_out \in 0..WB
        /\ \A s \in SocketStreams : \A exc \in BOOLEAN :
               (streams[s].socket \in Senders /\ Returned(_socket_flush(W, s, exc))) =>
                   TailKept(_socket_flush(W, s, exc), streams[s].socket,
                            SentBy(_socket_flush(W, s, exc), streams[s].socket))
        /\ \A id \in Senders :
               (\E p \in Ids : Mapped(p) /\ FdOf(p) = fds[FdOf(id)].peer) =>
                   Unread(W, PeerOf(id)) \o OutBytes(W, id) =
                       Tape(id, socks[PeerOf(id)].bytes_read,
                            socks[id].bytes_written - socks[PeerOf(id)].bytes_read)

\* A flush sends one of the two bytes in the out-buffer and leaves the other.
C34_PartialSend ==
    /\ ~halted
    /\ \E s \in SocketStreams : \E exc \in BOOLEAN :
           /\ streams[s].socket \in Senders
           /\ socks[streams[s].socket].offset_write_out = WB
           /\ Returned(_socket_flush(W, s, exc))
           /\ SentBy(_socket_flush(W, s, exc), streams[s].socket) = 1
           /\ _socket_flush(W, s, exc).socks[streams[s].socket].offset_write_out = WB - 1

\* The slot of socket id has the REFLUSH flag in world w.
Reflush(w, id) == "REFLUSH" \in FlagsIn(w, id)

\* In world w, reached from W by a flush of the connected socket id that
\* returned, REFLUSH is set if the socket is still connected with bytes left in
\* its out-buffer, and cleared if the out-buffer is drained.
ReflushRule(w, id) ==
    /\ (StateIn(w, id) = "CONNECTED" /\ w.socks[id].offset_write_out > 0) => Reflush(w, id)
    /\ w.socks[id].offset_write_out = 0 => ~Reflush(w, id)

\* C35: the REFLUSH flag of a slot is set when a buffered write stops on
\* would-block and cleared by the buffered write that drains the out-buffer,
\* and in every state a slot with REFLUSH set is the slot of a socket whose
\* out-buffer is not empty.
C35_ReflushMeansPending ==
    ~halted =>
        /\ \A b \in Bases :
               "REFLUSH" \in slots[b].flags =>
                   /\ slots[b].object \in Ids
                   /\ socks[slots[b].object].base = b
                   /\ socks[slots[b].object].offset_write_out > 0
        /\ \A s \in SocketStreams : \A exc \in BOOLEAN :
               (streams[s].socket \in Senders /\ Returned(_socket_flush(W, s, exc))) =>
                   ReflushRule(_socket_flush(W, s, exc), streams[s].socket)

\* A flush of a socket with REFLUSH set drains the out-buffer and clears the
\* flag.
C35_ReflushCleared ==
    /\ ~halted
    /\ \E s \in SocketStreams : \E exc \in BOOLEAN :
           /\ streams[s].socket \in Senders
           /\ Reflush(W, streams[s].socket)
           /\ Returned(_socket_flush(W, s, exc))
           /\ _socket_flush(W, s, exc).socks[streams[s].socket].offset_write_out = 0
           /\ ~Reflush(_socket_flush(W, s, exc), streams[s].socket)

\* The slot b of world w has the values _socket_close gives a slot.
SlotClean(w, b) ==
    /\ w.slots[b].object = 0
    /\ w.slots[b].fd = SOCKET_INVALID
    /\ w.slots[b].flags = {}
    /\ w.slots[b].state = "NOTCONNECTED"

\* A step that returns and takes a socket's slot away leaves the slot clean.
ClosedClean ==
    \A id \in Ids :
        (socks[id].base \in Bases /\ socks'[id].base < 0 /\ ~halted') =>
            SlotClean(W', socks[id].base)

\* C36: an operation that closes a socket leaves the slot the socket had with
\* object 0, fd SOCKET_INVALID, no flags and state NOT_CONNECTED, and in every
\* state between operations each free slot has these values.
C36_ClosedSlotClean ==
    /\ [](~halted => \A b \in Bases : slots[b].object = 0 => SlotClean(W, b))
    /\ [][ClosedClean]_vars

\* The steps the spec allows the state of a record to take.
StateSteps ==
    {<<"NOTCONNECTED", "CONNECTING">>, <<"NOTCONNECTED", "CONNECTED">>,
     <<"NOTCONNECTED", "LISTENING">>, <<"CONNECTING", "CONNECTED">>,
     <<"CONNECTING", "NOTCONNECTED">>, <<"CONNECTED", "DISCONNECTED">>,
     <<"CONNECTED", "NOTCONNECTED">>, <<"DISCONNECTED", "NOTCONNECTED">>,
     <<"LISTENING", "NOTCONNECTED">>}

\* A call that returns leaves the state of every record as it was or moves it
\* along one of the steps.
StateStepped ==
    ~halted' =>
        \A id \in Ids :
            \/ StateIn(W', id) = StateIn(W, id)
            \/ <<StateIn(W, id), StateIn(W', id)>> \in StateSteps

\* The state poller leaves a socket that is NOT_CONNECTED or LISTENING in its
\* state.
PollerKeeps ==
    ~halted =>
        \A id \in Ids : \A exc \in BOOLEAN :
            (Mapped(id) /\ StateOf(id) \in {"NOTCONNECTED", "LISTENING"}) =>
                /\ socket_state(W, id, exc).res = StateOf(id)
                /\ StateIn(socket_state(W, id, exc).w, id) = StateOf(id)

\* C37: the state reported for a record changes only from NOT_CONNECTED to
\* CONNECTING, CONNECTED or LISTENING, from CONNECTING to CONNECTED or
\* NOT_CONNECTED, from CONNECTED to DISCONNECTED or NOT_CONNECTED, and from
\* DISCONNECTED or LISTENING to NOT_CONNECTED; the state poller changes no
\* socket that is NOT_CONNECTED or LISTENING.
C37_StateSteps == []PollerKeeps /\ [][StateStepped]_vars

\* The poller has found the error on the client's connection and reported
\* DISCONNECTED, the client still having its byte to read, and the listener is
\* LISTENING as before.
C37_HangupPolled ==
    /\ ~halted
    /\ last.op = "state"
    /\ last.id = 2
    /\ last.res = "DISCONNECTED"
    /\ StateOf(2) = "DISCONNECTED"
    /\ RingCount(W, 2) > 0
    /\ StateOf(1) = "LISTENING"

\* The claimed slots whose descriptor is open.
OpenSlots == {b \in Bases : slots[b].object # 0 /\ FdOpen(W, slots[b].fd)}

\* C38: between calls, the BLOCKING flag of every slot with an open descriptor
\* is the blocking mode of that descriptor: tcp_socket_accept and
\* socket_connect with a timeout undo their switch to non-blocking in the flag
\* and in the descriptor, and an accepted socket reports the mode its
\* descriptor has.
C38_FlagIsMode ==
    ~halted =>
        \A b \in OpenSlots : ("BLOCKING" \in slots[b].flags) = ~fds[slots[b].fd].nonblock

\* socket_connect has just returned true on socket id, which was closed
\* before: a new connection of the record starts.
Reconnected(id) ==
    /\ last.op = "connect"
    /\ last.id = id
    /\ last.res = TRUE
    /\ hist.closed[id] = "reconnected"

\* C39: buffers do not carry over between connections of one record: when a
\* socket was closed and its id is connected again, its in-ring and its
\* out-buffer are empty at the start of the new connection.
C39_BuffersStartEmpty ==
    ~halted =>
        \A id \in Ids :
            Reconnected(id) =>
                /\ RingCount(W, id) = 0
                /\ socks[id].offset_write_out = 0

\* The claimed slots of world w that hold the descriptor fd.
Holders(w, fd) == {b \in Bases : w.slots[b].object # 0 /\ w.slots[b].fd = fd}

\* C40: no descriptor is leaked: after every completed call each open
\* descriptor is the fd of exactly one claimed slot, and when
\* tcp_socket_accept returns 0 no descriptor is open that was not open before
\* the call.
C40_NoDescriptorLeaked ==
    ~halted =>
        /\ \A fd \in Fds : fds[fd].open => Cardinality(Holders(W, fd)) = 1
        /\ \A c \in AcceptReturns :
               c.r.res = 0 => \A fd \in Fds : FdOpen(c.r.w, fd) => FdOpen(W, fd)
====
